---- MODULE Spec2Model ----
(***************************************************************************)
(* dns-monitor: the /api/dns route (routes/api/dns.ts).                    *)
(*                                                                         *)
(* The GET handler cleans the domain parameter, optionally discovers       *)
(* subdomains from Certificate Transparency logs (fetchCtSubdomains, with  *)
(* a Deno KV cache), builds the work list, launches detectWildcard and one *)
(* queryDns per (subdomain, type), joins them, filters wildcard false      *)
(* positives, prunes records that coexist with a CNAME, sorts and answers. *)
(*                                                                         *)
(* Strings are TLA+ strings; the string functions of the code are written  *)
(* out character by character with Len, SubSeq and \o.                     *)
(***************************************************************************)
EXTENDS Integers, Sequences, FiniteSets, TLC

(***************************************************************************)
(* String helpers: the JavaScript string methods the route uses.           *)
(***************************************************************************)
CharAt(s, i) == SubSeq(s, i, i)

StartsWith(s, p) == Len(s) >= Len(p) /\ SubSeq(s, 1, Len(p)) = p

EndsWith(s, p) == Len(s) >= Len(p) /\ SubSeq(s, Len(s) - Len(p) + 1, Len(s)) = p

Includes(s, c) == \E i \in 1..Len(s) : CharAt(s, i) = c

\* String.prototype.slice(from) with a 0-based non-negative index.
SliceFrom(s, from) == SubSeq(s, from + 1, Len(s))

RECURSIVE IndexFrom(_, _, _)
IndexFrom(s, c, i) ==
    IF i > Len(s) THEN 0 ELSE IF CharAt(s, i) = c THEN i ELSE IndexFrom(s, c, i + 1)

\* index (1-based) of the first occurrence of the character c in s, 0 if none
IndexOfChar(s, c) == IndexFrom(s, c, 1)

IsSpaceChar(c) == c \in {" ", "\t", "\n", "\r"}

RECURSIVE TrimStart(_)
TrimStart(s) ==
    IF Len(s) > 0 /\ IsSpaceChar(CharAt(s, 1)) THEN TrimStart(SliceFrom(s, 1)) ELSE s

RECURSIVE TrimEnd(_)
TrimEnd(s) ==
    IF Len(s) > 0 /\ IsSpaceChar(CharAt(s, Len(s)))
    THEN TrimEnd(SubSeq(s, 1, Len(s) - 1)) ELSE s

Trim(s) == TrimEnd(TrimStart(s))

UpperChars == "ABCDEFGHIJKLMNOPQRSTUVWXYZ"

LowerChars == "abcdefghijklmnopqrstuvwxyz"

\* the lower-case letter of each upper-case letter
LowerOf == [i \in 1..Len(UpperChars) |-> CharAt(LowerChars, i)]

UpperSet == {CharAt(UpperChars, i) : i \in 1..Len(UpperChars)}

LowerChar(c) == IF c \in UpperSet THEN LowerOf[IndexOfChar(UpperChars, c)] ELSE c

RECURSIVE ToLowerCase(_)
ToLowerCase(s) ==
    IF Len(s) = 0 THEN s ELSE LowerChar(CharAt(s, 1)) \o ToLowerCase(SliceFrom(s, 1))

\* String.prototype.split on a one-character separator
RECURSIVE Split(_, _)
Split(s, sep) ==
    LET i == IndexOfChar(s, sep) IN
    IF i = 0 THEN <<s>> ELSE <<SubSeq(s, 1, i - 1)>> \o Split(SliceFrom(s, i), sep)

\* Array.prototype.join
RECURSIVE Join(_, _)
Join(parts, sep) ==
    IF Len(parts) = 0 THEN ""
    ELSE IF Len(parts) = 1 THEN parts[1]
    ELSE parts[1] \o sep \o Join(Tail(parts), sep)

\* Variant of StripTrailingDot that leaves the string as it is.
KeepTrailingDot(s) == s

\* s.replace(/\.$/, "")
StripTrailingDot(s) == IF EndsWith(s, ".") THEN SubSeq(s, 1, Len(s) - 1) ELSE s

\* s.replace(/^"|"$/g, "")
StripQuotes(s) ==
    LET s1 == IF StartsWith(s, "\"") THEN SliceFrom(s, 1) ELSE s
    IN  IF EndsWith(s1, "\"") THEN SubSeq(s1, 1, Len(s1) - 1) ELSE s1

\* s.replace(/^https?:\/\//, "")
StripScheme(s) ==
    IF StartsWith(s, "https://") THEN SliceFrom(s, 8)
    ELSE IF StartsWith(s, "http://") THEN SliceFrom(s, 7)
    ELSE s

\* s.replace(/\/.*$/, "")
StripPath(s) ==
    LET i == IndexOfChar(s, "/") IN IF i = 0 THEN s ELSE SubSeq(s, 1, i - 1)

Digits == "0123456789"

IsDigit(c) == Len(c) = 1 /\ Includes(Digits, c)

RECURSIVE DigitsValue(_, _)
DigitsValue(s, acc) ==
    IF Len(s) > 0 /\ IsDigit(CharAt(s, 1))
    THEN DigitsValue(SliceFrom(s, 1), 10 * acc + (IndexOfChar(Digits, CharAt(s, 1)) - 1))
    ELSE acc

\* A JavaScript number that may be NaN.
Num(n) == [nan |-> FALSE, n |-> n]

NaN == [nan |-> TRUE, n |-> 0]

\* parseInt(s, 10): leading white space skipped, an optional sign, then the
\* longest run of digits; NaN when there is no digit (or s is undefined).
ParseInt(s) ==
    LET t == TrimStart(s)
        neg == StartsWith(t, "-")
        u == IF StartsWith(t, "-") \/ StartsWith(t, "+") THEN SliceFrom(t, 1) ELSE t
    IN  IF Len(u) > 0 /\ IsDigit(CharAt(u, 1))
        THEN Num(IF neg THEN 0 - DigitsValue(u, 0) ELSE DigitsValue(u, 0))
        ELSE NaN

\* x || 0 for a number x
OrZero(x) == IF x.nan THEN 0 ELSE x.n

\* Collation rank of a character under String.prototype.localeCompare (root
\* locale): punctuation before digits before letters, letters compared
\* without case at the primary level.
CollationChars == "_-.@*0123456789abcdefghijklmnopqrstuvwxyz"

CollationSet == {CharAt(CollationChars, i) : i \in 1..Len(CollationChars)}

RankOf == [c \in CollationSet |-> IndexOfChar(CollationChars, c)]

Rank(c) == IF LowerChar(c) \in CollationSet THEN RankOf[LowerChar(c)] ELSE 0

RECURSIVE LocaleCompare(_, _)
LocaleCompare(a, b) ==
    IF Len(a) = 0 /\ Len(b) = 0 THEN 0
    ELSE IF Len(a) = 0 THEN -1
    ELSE IF Len(b) = 0 THEN 1
    ELSE IF Rank(CharAt(a, 1)) < Rank(CharAt(b, 1)) THEN -1
    ELSE IF Rank(CharAt(a, 1)) > Rank(CharAt(b, 1)) THEN 1
    ELSE LocaleCompare(SliceFrom(a, 1), SliceFrom(b, 1))


(***************************************************************************)
(* Tables of the route.                                                    *)
(***************************************************************************)
RecordTypes == {"A", "AAAA", "CNAME", "MX", "NS", "TXT", "SOA", "SRV"}

DNS_TYPE_MAP(type) ==
    CASE type = "A" -> 1
      [] type = "AAAA" -> 28
      [] type = "CNAME" -> 5
      [] type = "MX" -> 15
      [] type = "NS" -> 2
      [] type = "TXT" -> 16
      [] type = "SOA" -> 6
      [] type = "SRV" -> 33

Q(subdomain, types) == [subdomain |-> subdomain, types |-> types]

QUERIES_TO_RUN ==
    << Q("@", <<"A", "AAAA", "TXT", "MX", "SOA">>),
       Q("@", <<"NS">>),
       Q("www", <<"A", "AAAA", "CNAME">>),
       Q("mail", <<"A", "AAAA", "CNAME">>),
       Q("ftp", <<"A", "AAAA", "CNAME">>),
       Q("smtp", <<"A", "AAAA", "CNAME">>),
       Q("pop", <<"A", "AAAA", "CNAME">>),
       Q("imap", <<"A", "AAAA", "CNAME">>),
       Q("webmail", <<"A", "AAAA", "CNAME">>),
       Q("_dmarc", <<"TXT">>),
       Q("_mta-sts", <<"TXT">>),
       Q("_smtp._tls", <<"TXT">>),
       Q("autodiscover", <<"CNAME", "A">>),
       Q("lyncdiscover", <<"CNAME", "A">>),
       Q("sip", <<"CNAME", "A">>),
       Q("enterpriseregistration", <<"CNAME">>),
       Q("enterpriseenrollment", <<"CNAME">>),
       Q("_sipfederationtls._tcp", <<"SRV">>),
       Q("_sip._tls", <<"SRV">>),
       Q("autoconfig", <<"CNAME", "A">>),
       Q("selector1._domainkey", <<"TXT", "CNAME">>),
       Q("selector2._domainkey", <<"TXT", "CNAME">>),
       Q("google._domainkey", <<"TXT", "CNAME">>),
       Q("s1._domainkey", <<"TXT", "CNAME">>),
       Q("s2._domainkey", <<"TXT", "CNAME">>),
       Q("k2._domainkey", <<"TXT", "CNAME">>),
       Q("k3._domainkey", <<"TXT", "CNAME">>),
       Q("default._domainkey", <<"TXT", "CNAME">>),
       Q("transip-a._domainkey", <<"TXT", "CNAME">>),
       Q("transip-b._domainkey", <<"TXT", "CNAME">>),
       Q("transip-c._domainkey", <<"TXT", "CNAME">>),
       Q("x-transip-mail-auth", <<"TXT", "CNAME">>),
       Q("_dkim", <<"TXT">>),
       Q("_domainkey", <<"TXT">>) >>

\* QUERIES_TO_RUN.map((q) => q.subdomain)
StaticSubdomains == {QUERIES_TO_RUN[i].subdomain : i \in 1..Len(QUERIES_TO_RUN)}

\* the predicate of the .filter() that builds WILDCARD_FILTERED_SUBDOMAINS
\* Variant of the eligibility test that leaves out the underscore exclusion.
WildcardFilterableNonApex(s) == s # "@"

\* Variant of the eligibility test that lets every catalog name through, the apex too.
WildcardFilterableAny(s) == TRUE

WildcardFilterable(s) == s # "@" /\ ~StartsWith(s, "_")

WILDCARD_FILTERED_SUBDOMAINS == {s \in StaticSubdomains : WildcardFilterable(s)}

WILDCARD_AFFECTED_TYPES == {"A", "AAAA", "CNAME", "TXT", "CAA"}

CT_CACHE_TTL_MS == 60 * 60 * 1000

(***************************************************************************)
(* parseRecord: one upstream answer [name, type, TTL, data] to a DnsRecord.*)
(* A string value is [str |-> s]; MX, SOA and SRV values are records.      *)
(***************************************************************************)
StrValue(s) == [str |-> s]

\* typeof v === "string"
IsStringValue(v) == DOMAIN v = {"str"}

\* parts[i]?.replace(/\.$/, "") || ""   (i is the 0-based index of the code)
HostPart(parts, i) == IF i + 1 <= Len(parts) THEN StripTrailingDot(parts[i + 1]) ELSE ""

\* parseInt(parts[i], 10)
IntPart(parts, i) == IF i + 1 <= Len(parts) THEN ParseInt(parts[i + 1]) ELSE NaN

ParseValue(data, type) ==
    LET parts == Split(data, " ") IN
    CASE type = "MX" ->
            [preference |-> IntPart(parts, 0),
             exchange |-> StripTrailingDot(Join(Tail(parts), " "))]
      [] type = "SOA" ->
            [mname |-> HostPart(parts, 0), rname |-> HostPart(parts, 1),
             serial |-> OrZero(IntPart(parts, 2)), refresh |-> OrZero(IntPart(parts, 3)),
             retry |-> OrZero(IntPart(parts, 4)), expire |-> OrZero(IntPart(parts, 5)),
             minimum |-> OrZero(IntPart(parts, 6))]
      [] type = "SRV" ->
            [priority |-> OrZero(IntPart(parts, 0)), weight |-> OrZero(IntPart(parts, 1)),
             port |-> OrZero(IntPart(parts, 2)), target |-> HostPart(parts, 3)]
      [] type = "TXT" -> StrValue(StripQuotes(data))
      [] type \in {"CNAME", "NS"} -> StrValue(StripTrailingDot(data))
      [] OTHER -> StrValue(data)

parseRecord(answer, type) ==
    [name |-> StripTrailingDot(answer.name), type |-> type, ttl |-> answer.TTL,
     value |-> ParseValue(answer.data, type)]


Range(s) == {s[i] : i \in 1..Len(s)}

\* Set.prototype.add on a set kept as the sequence of its insertion order
SetAdd(s, e) == IF e \in Range(s) THEN s ELSE Append(s, e)

(***************************************************************************)
(* queryDns: one DNS-over-HTTPS query.  A reply of the resolver is         *)
(*   [net, httpOk, httpStatus, Status, hasAnswer, AD, Answer]              *)
(* net = FALSE: fetch() or response.json() threw.                          *)
(***************************************************************************)
Outcome(subdomain, type, records, hasError, error, dnssecValid) ==
    [subdomain |-> subdomain, type |-> type, records |-> records,
     hasError |-> hasError, error |-> error, dnssecValid |-> dnssecValid,
     rejected |-> FALSE]

\* Variant of queryDns without the special case of status 3.
queryDnsStatusErrors(subdomain, type, reply) ==
    LET typeNum == DNS_TYPE_MAP(type) IN
    IF ~reply.net THEN Outcome(subdomain, type, <<>>, TRUE, "fetch failed", FALSE)
    ELSE IF ~reply.httpOk
    THEN Outcome(subdomain, type, <<>>, TRUE, "HTTP " \o ToString(reply.httpStatus), FALSE)
    ELSE IF reply.Status # 0
    THEN Outcome(subdomain, type, <<>>, TRUE, "DNS error: " \o ToString(reply.Status), FALSE)
    ELSE IF ~reply.hasAnswer THEN Outcome(subdomain, type, <<>>, FALSE, "", FALSE)
    ELSE Outcome(subdomain, type,
                 [i \in 1..Len(SelectSeq(reply.Answer, LAMBDA a : a.type = typeNum)) |->
                    parseRecord(SelectSeq(reply.Answer, LAMBDA a : a.type = typeNum)[i], type)],
                 FALSE, "", reply.AD)

\* Variant of queryDns without the try/catch: the promise rejects when fetch throws.
queryDnsNoCatch(subdomain, type, reply) ==
    LET typeNum == DNS_TYPE_MAP(type) IN
    IF ~reply.net
    THEN [Outcome(subdomain, type, <<>>, FALSE, "", FALSE) EXCEPT !.rejected = TRUE]
    ELSE IF ~reply.httpOk
    THEN Outcome(subdomain, type, <<>>, TRUE, "HTTP " \o ToString(reply.httpStatus), FALSE)
    ELSE IF reply.Status # 0
    THEN (IF reply.Status = 3
          THEN Outcome(subdomain, type, <<>>, FALSE, "", FALSE)
          ELSE Outcome(subdomain, type, <<>>, TRUE,
                       "DNS error: " \o ToString(reply.Status), FALSE))
    ELSE IF ~reply.hasAnswer THEN Outcome(subdomain, type, <<>>, FALSE, "", FALSE)
    ELSE Outcome(subdomain, type,
                 [i \in 1..Len(SelectSeq(reply.Answer, LAMBDA a : a.type = typeNum)) |->
                    parseRecord(SelectSeq(reply.Answer, LAMBDA a : a.type = typeNum)[i], type)],
                 FALSE, "", reply.AD)

\* Variant of queryDns without the filter on the wire type: every answer is parsed.
queryDnsKeepAll(subdomain, type, reply) ==
    IF ~reply.net THEN Outcome(subdomain, type, <<>>, TRUE, "fetch failed", FALSE)
    ELSE IF ~reply.httpOk
    THEN Outcome(subdomain, type, <<>>, TRUE, "HTTP " \o ToString(reply.httpStatus), FALSE)
    ELSE IF reply.Status # 0
    THEN (IF reply.Status = 3
          THEN Outcome(subdomain, type, <<>>, FALSE, "", FALSE)
          ELSE Outcome(subdomain, type, <<>>, TRUE,
                       "DNS error: " \o ToString(reply.Status), FALSE))
    ELSE IF ~reply.hasAnswer THEN Outcome(subdomain, type, <<>>, FALSE, "", FALSE)
    ELSE Outcome(subdomain, type,
                 [i \in 1..Len(reply.Answer) |-> parseRecord(reply.Answer[i], type)],
                 FALSE, "", reply.AD)

queryDns(subdomain, type, reply) ==
    LET typeNum == DNS_TYPE_MAP(type) IN
    IF ~reply.net THEN Outcome(subdomain, type, <<>>, TRUE, "fetch failed", FALSE)
    ELSE IF ~reply.httpOk
    THEN Outcome(subdomain, type, <<>>, TRUE, "HTTP " \o ToString(reply.httpStatus), FALSE)
    ELSE IF reply.Status # 0
    THEN (IF reply.Status = 3
          THEN Outcome(subdomain, type, <<>>, FALSE, "", FALSE)
          ELSE Outcome(subdomain, type, <<>>, TRUE,
                       "DNS error: " \o ToString(reply.Status), FALSE))
    ELSE IF ~reply.hasAnswer THEN Outcome(subdomain, type, <<>>, FALSE, "", FALSE)
    ELSE Outcome(subdomain, type,
                 [i \in 1..Len(SelectSeq(reply.Answer, LAMBDA a : a.type = typeNum)) |->
                    parseRecord(SelectSeq(reply.Answer, LAMBDA a : a.type = typeNum)[i], type)],
                 FALSE, "", reply.AD)

(***************************************************************************)
(* detectWildcard: the loop over the four probe responses.  A probe        *)
(* response is a reply as above; net = FALSE is the null of .catch().      *)
(***************************************************************************)
NoCname == [null |-> TRUE, v |-> ""]

\* the body of the inner loop, for one answer a
WildcardAddAnswer(w, a) ==
    LET value == StripQuotes(StripTrailingDot(a.data)) IN
    [targets |-> SetAdd(w.targets, value),
     cname |-> IF a.type = 5 THEN [null |-> FALSE, v |-> value] ELSE w.cname]

RECURSIVE WildcardAddAnswers(_, _)
WildcardAddAnswers(w, answers) ==
    IF Len(answers) = 0 THEN w
    ELSE WildcardAddAnswers(WildcardAddAnswer(w, Head(answers)), Tail(answers))

\* Variant of the test on a probe response that does not look at the status.
ProbeCountsAnyStatus(data) == data.net /\ data.hasAnswer

\* data?.Status === 0 && data?.Answer
ProbeCounts(data) == data.net /\ data.Status = 0 /\ data.hasAnswer

RECURSIVE WildcardScan(_, _)
WildcardScan(w, responses) ==
    IF Len(responses) = 0 THEN w
    ELSE WildcardScan(IF ProbeCounts(Head(responses))
                      THEN WildcardAddAnswers(w, Head(responses).Answer) ELSE w,
                      Tail(responses))

detectWildcard(responses) ==
    LET w == WildcardScan([targets |-> <<>>, cname |-> NoCname], responses) IN
    [hasWildcard |-> Len(w.targets) > 0, wildcardTargets |-> w.targets,
     wildcardCname |-> w.cname]

typesToCheck == <<"A", "AAAA", "TXT", "CAA">>

(***************************************************************************)
(* fetchCtSubdomains: the extraction of subdomains from the crt.sh entries.*)
(* An entry is [name_value, not_after]; not_after is a time in ms.         *)
(***************************************************************************)
CtResult(subdomains, totalCerts, activeCerts, cached) ==
    [subdomains |-> subdomains, totalCerts |-> totalCerts,
     activeCerts |-> activeCerts, cached |-> cached, isNull |-> FALSE, threw |-> FALSE]

ZeroCt == CtResult(<<>>, 0, 0, FALSE)

\* the guard of the `continue` in the loop over the names of a certificate
SkipName(name, domain) ==
    name = "" \/ StartsWith(name, "*") \/ name = domain \/ ~EndsWith(name, "." \o domain)

\* name.slice(0, -(domain.length + 1))
SubdomainOf(name, domain) == SubSeq(name, 1, Len(name) - (Len(domain) + 1))

AcceptSubdomain(subdomain) ==
    subdomain # "" /\ ~Includes(subdomain, "@") /\ ~Includes(subdomain, " ")

RECURSIVE AddNames(_, _, _)
AddNames(set, names, domain) ==
    IF Len(names) = 0 THEN set
    ELSE LET name == Head(names)
             sub == SubdomainOf(name, domain)
         IN  AddNames(IF ~SkipName(name, domain) /\ AcceptSubdomain(sub)
                      THEN SetAdd(set, sub) ELSE set,
                      Tail(names), domain)

\* entry.name_value.split("\n").map((n) => n.trim().toLowerCase())
NamesOf(entry) ==
    LET names == Split(entry.name_value, "\n")
    IN  [i \in 1..Len(names) |-> ToLowerCase(Trim(names[i]))]

RECURSIVE AddEntries(_, _, _)
AddEntries(set, entries, domain) ==
    IF Len(entries) = 0 THEN set
    ELSE AddEntries(AddNames(set, NamesOf(Head(entries)), domain), Tail(entries), domain)

\* entries.filter((entry) => new Date(entry.not_after) > now)
ActiveCerts(entries, t) == SelectSeq(entries, LAMBDA e : e.not_after > t)

ParseCtEntries(entries, domain, t) ==
    CtResult(AddEntries(<<>>, ActiveCerts(entries, t), domain),
             Len(entries), Len(ActiveCerts(entries, t)), FALSE)

\* Variant of the freshness test that lets the boundary age pass.
CacheFreshInclusive(cachedAt, t) == t - cachedAt <= CT_CACHE_TTL_MS

\* the freshness test of the cache read
CacheFresh(cachedAt, t) == t - cachedAt < CT_CACHE_TTL_MS


(***************************************************************************)
(* The GET handler: cleaning, work list, filters, sort.                    *)
(***************************************************************************)
\* domain.trim().toLowerCase().replace(/^https?:\/\//, "").replace(/\/.*$/, "")
CleanDomain(domain) == StripPath(StripScheme(ToLowerCase(Trim(domain))))

\* Variant of the work-list test that keeps every CT subdomain.
KeepCtSubdomainAny(subdomain) == TRUE

\* if (!staticSubdomains.has(subdomain))
KeepCtSubdomain(subdomain) == subdomain \notin StaticSubdomains

\* ctSubdomains: the CT-discovered subdomains pushed on the work list
CtSubdomainsOf(ctData) ==
    IF ctData.isNull THEN <<>> ELSE SelectSeq(ctData.subdomains, KeepCtSubdomain)

\* queriesToRun = [...QUERIES_TO_RUN] followed by one entry per CT subdomain
BuildQueries(ctData) ==
    QUERIES_TO_RUN \o [i \in 1..Len(CtSubdomainsOf(ctData)) |->
                            Q(CtSubdomainsOf(ctData)[i], <<"A", "AAAA", "CNAME">>)]

\* the two nested loops that push queryDns(...) on queryPromises
RECURSIVE FlattenQueries(_)
FlattenQueries(queries) ==
    IF Len(queries) = 0 THEN <<>>
    ELSE [i \in 1..Len(Head(queries).types) |->
            [subdomain |-> Head(queries).subdomain, type |-> Head(queries).types[i]]]
         \o FlattenQueries(Tail(queries))

\* wildcardFilteredSubdomains
WildcardFilteredSet(ctSubdomains) == WILDCARD_FILTERED_SUBDOMAINS \cup Range(ctSubdomains)

\* subdomainsWithCname
SubdomainsWithCname(results) ==
    {results[i].subdomain : i \in {k \in 1..Len(results) :
        \E n \in 1..Len(results[k].records) : results[k].records[n].type = "CNAME"}}

\* Variant of the filter callback that looks at the kind only.
KeepByAffectedType(r, wildcard) == r.type \notin WILDCARD_AFFECTED_TYPES

\* the callback of result.records.filter(...) in the wildcard filter
KeepByWildcard(r, wildcard) ==
    IF r.type \notin WILDCARD_AFFECTED_TYPES THEN TRUE
    ELSE LET value == IF IsStringValue(r.value) THEN r.value.str ELSE ""
         IN  value \notin Range(wildcard.wildcardTargets)

WildcardFilter(result, wildcard, filtered) ==
    IF wildcard.hasWildcard /\ result.subdomain \in filtered
    THEN SelectSeq(result.records, LAMBDA r : KeepByWildcard(r, wildcard))
    ELSE result.records

\* Variant of the CNAME filter that prunes nothing.
CnameFilterOff(records, subdomain, withCname) == records

CnameFilter(records, subdomain, withCname) ==
    IF subdomain \in withCname THEN SelectSeq(records, LAMBDA r : r.type = "CNAME")
    ELSE records

\* filteredRecords of each result, after the wildcard filter
AfterWildcard(results, wildcard, filtered) ==
    [i \in 1..Len(results) |-> WildcardFilter(results[i], wildcard, filtered)]

\* filteredRecords of each result, after the CNAME filter too
AfterCname(results, afterWildcard, withCname) ==
    [i \in 1..Len(results) |-> CnameFilter(afterWildcard[i], results[i].subdomain, withCname)]

\* allRecords before the sort
RECURSIVE FlattenRecords(_, _, _)
FlattenRecords(results, kept, i) ==
    IF i > Len(results) THEN <<>>
    ELSE [n \in 1..Len(kept[i]) |->
            [name |-> results[i].subdomain, type |-> kept[i][n].type,
             value |-> kept[i][n].value, ttl |-> kept[i][n].ttl]]
         \o FlattenRecords(results, kept, i + 1)

\* Variant of the comparator that compares the names only.
CompareByName(a, b) == LocaleCompare(a.name, b.name)

\* the comparator of allRecords.sort
CompareRecords(a, b) ==
    IF a.name = "@" /\ b.name # "@" THEN -1
    ELSE IF a.name # "@" /\ b.name = "@" THEN 1
    ELSE IF a.name # b.name THEN LocaleCompare(a.name, b.name)
    ELSE LocaleCompare(a.type, b.type)

\* Array.prototype.sort is stable: an element goes after the elements that do
\* not compare greater than it.
RECURSIVE InsertSorted(_, _)
InsertSorted(sorted, e) ==
    IF Len(sorted) = 0 THEN <<e>>
    ELSE IF CompareRecords(Head(sorted), e) <= 0
    THEN <<Head(sorted)>> \o InsertSorted(Tail(sorted), e)
    ELSE <<e>> \o sorted

RECURSIVE SortFrom(_, _)
SortFrom(sorted, rest) ==
    IF Len(rest) = 0 THEN sorted
    ELSE SortFrom(InsertSorted(sorted, Head(rest)), Tail(rest))

SortRecords(records) == SortFrom(<<>>, records)


(***************************************************************************)
(* The environment of the bounded model: what the resolver, the CT search  *)
(* service and the clock may answer.                                       *)
(***************************************************************************)
MaxTicks == 2

MaxCalls == 2

Procs == {1, 2}

\* the process that runs the GET handler
Handler == 1

WildIp == "198.51.100.1"

OtherIp == "192.0.2.5"

WildCnameData == "wild.example.net."

OtherCnameData == "host.example.net."

WildTxtData == "\"v=spf1 -all\""

\* const fullDomain = subdomain === "@" ? domain : `${subdomain}.${domain}`
FullDomain(subdomain, domain) == IF subdomain = "@" THEN domain ELSE subdomain \o "." \o domain

Answer(name, type, data) == [name |-> name \o ".", type |-> type, TTL |-> 300, data |-> data]

NetFail ==
    [net |-> FALSE, httpOk |-> FALSE, httpStatus |-> 0, Status |-> 0,
     hasAnswer |-> FALSE, AD |-> FALSE, Answer |-> <<>>]

HttpFail(status) == [NetFail EXCEPT !.net = TRUE, !.httpStatus = status]

DnsStatus(status) ==
    [NetFail EXCEPT !.net = TRUE, !.httpOk = TRUE, !.httpStatus = 200, !.Status = status]

Answered(answers, ad) ==
    [DnsStatus(0) EXCEPT !.hasAnswer = TRUE, !.AD = ad, !.Answer = answers]

\* The replies the resolver may give to the query (subdomain, type) of a scan
\* of `domain`.  Names outside this zone do not exist (status 3).
DnsReplies(subdomain, type, domain) ==
    LET n == FullDomain(subdomain, domain)
        q == <<subdomain, type>>
    IN  IF domain = "" THEN {DnsStatus(3)}
        ELSE CASE q = <<"@", "A">> -> {Answered(<<Answer(n, 1, WildIp)>>, TRUE)}
          [] q = <<"@", "TXT">> -> {Answered(<<Answer(n, 16, WildTxtData)>>, FALSE)}
          [] q = <<"@", "MX">> -> {Answered(<<Answer(n, 15, "10 mail." \o domain \o ".")>>, FALSE)}
          [] q = <<"@", "SOA">> -> {DnsStatus(0)}
          [] q = <<"www", "A">> ->
                {Answered(<<Answer(n, 5, OtherCnameData), Answer(OtherCnameData, 1, OtherIp)>>,
                          FALSE)}
          [] q = <<"www", "CNAME">> -> {Answered(<<Answer(n, 5, OtherCnameData)>>, FALSE)}
          [] q = <<"ftp", "A">> ->
                {Answered(<<Answer(n, 1, WildIp), Answer(n, 1, OtherIp)>>, FALSE)}
          [] q = <<"_dmarc", "TXT">> -> {Answered(<<Answer(n, 16, WildTxtData)>>, FALSE)}
          [] q = <<"autoconfig", "CNAME">> ->
                {DnsStatus(3), Answered(<<Answer(n, 5, WildCnameData)>>, FALSE)}
          [] q = <<"autoconfig", "A">> ->
                {DnsStatus(3), Answered(<<Answer(n, 1, WildIp)>>, FALSE),
                 Answered(<<Answer(n, 1, OtherIp)>>, FALSE)}
          [] q = <<"_dkim", "TXT">> -> {DnsStatus(3), NetFail, HttpFail(500), DnsStatus(2)}
          [] q = <<"1st", "A">> -> {Answered(<<Answer(n, 1, OtherIp)>>, FALSE)}
          [] q = <<"staging", "A">> ->
                {DnsStatus(3), Answered(<<Answer(n, 1, WildIp)>>, FALSE)}
          [] OTHER -> {DnsStatus(3)}

\* The replies the resolver may give to the wildcard probe of `type`.
ProbeReplies(type, domain) ==
    LET n == "_wildcard-test-0." \o domain IN
    IF domain = "" THEN {DnsStatus(3)}
    ELSE CASE type = "A" ->
                {NetFail, DnsStatus(3), Answered(<<Answer(n, 1, WildIp)>>, FALSE),
                 Answered(<<Answer(n, 5, WildCnameData), Answer(WildCnameData, 1, WildIp)>>,
                          FALSE)}
           [] type = "TXT" -> {DnsStatus(3), Answered(<<Answer(n, 16, WildTxtData)>>, FALSE)}
           [] type = "CAA" -> {NetFail}
           [] OTHER -> {DnsStatus(3)}

\* How a request to crt.sh may end: fetch() throws; response.ok is false; the
\* body is blank; JSON.parse throws; the JSON is not an array of entries; or
\* the entries are parsed.
CtModes == {"transport", "http", "empty", "badjson", "notarray", "ok"}

StartNow == 2 * CT_CACHE_TTL_MS

Entry(name_value, not_after) == [name_value |-> name_value, not_after |-> not_after]

\* bodies of the CT search service: lists of certificates
BodyA ==
    << Entry("staging.example.com\nwww.example.com\n*.example.com\nexample.com\n_dmarc.example.com\n1st.example.com",
             StartNow + 10 * CT_CACHE_TTL_MS),
       Entry("old.example.com", StartNow - 1) >>

\* the log is append-only: BodyA and the certificates issued since
BodyB ==
    BodyA \o
    << Entry(" Dev.Example.com \na@b.example.com\nnotexample.com\nx y.example.com\nt\tab.example.com",
             StartNow + 10 * CT_CACHE_TTL_MS),
       Entry("soon.example.com", StartNow + 1) >>

\* the clock advances by half the freshness window at a time
TickStep == CT_CACHE_TTL_MS \div 2

Domains == {"", "example.com", "example.org"}

NoEntry ==
    [present |-> FALSE, subdomains |-> <<>>, totalCerts |-> 0, activeCerts |-> 0,
     cachedAt |-> 0, by |-> 0]

\* { ...result, cachedAt: Date.now() }; `by` names the call that wrote it
CacheEntry(result, t, id) ==
    [present |-> TRUE, subdomains |-> result.subdomains, totalCerts |-> result.totalCerts,
     activeCerts |-> result.activeCerts, cachedAt |-> t, by |-> id]

\* an entry left in the store by an earlier run of the server
OldEntry(age) == CacheEntry(CtResult(<<"staging", "legacy">>, 3, 2, FALSE), StartNow - age, 0)

EmptyCache == [d \in Domains |-> NoEntry]

Param(v) == [has |-> TRUE, v |-> v]

NoParam == [has |-> FALSE, v |-> ""]

\* values of the `domain` query parameter
DomainParams == {NoParam, Param(""), Param(" "), Param(" HTTPS://Example.com/dns ")}


(***************************************************************************)
(* State.                                                                  *)
(***************************************************************************)
VARIABLES
    now,            \* Date.now(), in ms
    ticks,          \* how often the clock has advanced
    kv,             \* the module-level Deno.Kv handle is not null
    cache,          \* the KV store: domain -> entry under the key ["ct", domain]
    ctBody,         \* the certificates the CT search service lists now
    pc,             \* where each process stands
    call,           \* the fetchCtSubdomains call each process is in
    log,            \* the fetchCtSubdomains calls that returned to a direct caller
    nextId,         \* the number the next fetchCtSubdomains call gets
    req,            \* the query parameters of the request
    cleanDomain,
    ctData,
    ctFailed,       \* the scan's CT request was sent and did not yield entries
    queriesToRun,
    ctSubdomains,
    results,        \* one QueryResult per dispatched query, in dispatch order
    pending,        \* the promises not settled: 0 is detectWildcard, i is query i
    wildcard,
    asm,            \* the intermediate values of the assembly
    response,
    netActs,        \* the kinds of outbound calls made so far
    fn,             \* a function called on its own: its arguments and what it returned
    ui              \* the DnsMonitor component in the browser: its signals and requests

envVars == <<now, ticks, ctBody>>

ctVars == <<kv, cache, call, log, nextId>>

scanVars ==
    <<req, cleanDomain, ctData, ctFailed, queriesToRun, ctSubdomains, results, pending,
      wildcard, asm, response>>

vars == <<envVars, ctVars, scanVars, pc, netActs, fn, ui>>

NullCt == [ZeroCt EXCEPT !.isNull = TRUE]

NoCall ==
    [id |-> 0, domain |-> "", from |-> "none", after |-> 0, store |-> FALSE,
     readOk |-> FALSE, found |-> FALSE, foundAge |-> 0, foundBy |-> 0,
     foundSubs |-> <<>>, fetched |-> FALSE, mode |-> "none", wrote |-> FALSE,
     result |-> ZeroCt, src |-> "none"]

NoWildcard == [hasWildcard |-> FALSE, wildcardTargets |-> <<>>, wildcardCname |-> NoCname]

NoAsm == [filtered |-> {}, withCname |-> {}, afterWildcard |-> <<>>, allRecords |-> <<>>]

Absent == [present |-> FALSE]

NoResponse ==
    [status |-> 0, success |-> FALSE, error |-> "", domain |-> "", records |-> <<>>,
     totalRecords |-> 0, wildcard |-> Absent, dnssec |-> Absent, ct |-> Absent]

\* Response.json({ success: false, error: "Domain is required" }, { status: 400 })
BadRequest == [NoResponse EXCEPT !.status = 400, !.error = "Domain is required"]

\* what the framework answers when the handler's promise rejects
ServerError == [NoResponse EXCEPT !.status = 500, !.error = "Internal Server Error"]

\* a signal that holds null
Null == [null |-> TRUE, by |-> 0, text |-> ""]

\* the component before it is rendered: the initial values of its signals
NoUi ==
    [mounted |-> FALSE, hash |-> "", domain |-> "", isLoading |-> FALSE, result |-> Null,
     error |-> Null, initialLoadDone |-> FALSE, flight |-> {}, lookups |-> 0]

\* no function is called on its own
NoFn == [op |-> "none", done |-> FALSE]

InitCommon ==
    /\ now = StartNow
    /\ ticks = 0
    /\ kv = FALSE
    /\ call = [p \in Procs |-> NoCall]
    /\ log = <<>>
    /\ nextId = 1
    /\ cleanDomain = ""
    /\ ctData = NullCt
    /\ ctFailed = FALSE
    /\ queriesToRun = <<>>
    /\ ctSubdomains = <<>>
    /\ results = <<>>
    /\ pending = {}
    /\ wildcard = NoWildcard
    /\ asm = NoAsm
    /\ response = NoResponse
    /\ netActs = {}
    /\ fn = NoFn
    /\ ui = NoUi

\* One request to a freshly started server; the store may hold an entry of an
\* earlier run, younger or older than the freshness window.
Init ==
    /\ InitCommon
    /\ cache \in {EmptyCache} \cup
            {[EmptyCache EXCEPT !["example.com"] = OldEntry(age)] :
                age \in {CT_CACHE_TTL_MS - 1, CT_CACHE_TTL_MS}}
    /\ ctBody = BodyA
    /\ pc = [p \in Procs |-> IF p = Handler THEN "start" ELSE "off"]
    /\ req \in [domain : DomainParams, dnssec : BOOLEAN, ct : BOOLEAN]
    \* the content of the store matters only to a scan that reads it
    /\ (req.ct \/ cache = EmptyCache)

(***************************************************************************)
(* fetchCtSubdomains, step by step (one action per await).                 *)
(***************************************************************************)
StartCall(p, domain, from) ==
    /\ call' = [call EXCEPT ![p] = [NoCall EXCEPT !.id = nextId, !.domain = domain,
                                                  !.from = from,
                                                  !.after = Len(log)]]
    /\ nextId' = nextId + 1

\* getKv(): the handle if there is one, else Deno.openKv(), which may throw
GetKv(ok) == kv \/ ok

\* const store = await getKv()      (before the cache read); without a store
\* the code goes on to fetch(crtUrl, ...) and the request leaves
CtOpenRead(p) ==
    /\ pc[p] = "ct_open"
    /\ \E ok \in (IF kv THEN {TRUE} ELSE BOOLEAN) :
        /\ kv' = GetKv(ok)
        /\ call' = [call EXCEPT ![p] = [@ EXCEPT !.store = GetKv(ok),
                                                 !.fetched = ~GetKv(ok)]]
        /\ netActs' = netActs \cup (IF kv THEN {} ELSE {"cache"})
                               \cup (IF GetKv(ok) THEN {} ELSE {"ct"})
        /\ pc' = [pc EXCEPT ![p] = IF GetKv(ok) THEN "ct_get" ELSE "ct_resp"]
    /\ UNCHANGED <<ui, fn, envVars, scanVars, cache, log, nextId>>

\* if (cached.value && Date.now() - cached.value.cachedAt < CT_CACHE_TTL_MS)
CacheHit(e, t) == e.present /\ CacheFresh(e.cachedAt, t)

\* Variant of the cache hit that drops the cached subdomains.
CachedResultEmpty(e) == CtResult(<<>>, e.totalCerts, e.activeCerts, TRUE)

CachedResult(e) == CtResult(e.subdomains, e.totalCerts, e.activeCerts, TRUE)

\* Variant of the cache read whose failure ends the call with the zero result.
CtCacheGetFailsCall(p) ==
    /\ pc[p] = "ct_get"
    /\ \E ok \in BOOLEAN :
        LET e == cache[call[p].domain]
            hit == ok /\ CacheHit(e, now)
        IN  /\ call' = [call EXCEPT ![p] =
                    [@ EXCEPT !.readOk = ok,
                              !.found = ok /\ e.present,
                              !.foundAge = IF ok /\ e.present THEN now - e.cachedAt ELSE 0,
                              !.foundBy = IF ok /\ e.present THEN e.by ELSE 0,
                              !.foundSubs = IF ok /\ e.present THEN e.subdomains ELSE <<>>,
                              !.fetched = ok /\ ~hit,
                              !.result = IF hit THEN CachedResult(e) ELSE @,
                              !.src = IF hit THEN "cache" ELSE IF ok THEN @ ELSE "zero"]]
            /\ netActs' = netActs \cup {"cache"} \cup (IF hit \/ ~ok THEN {} ELSE {"ct"})
            /\ pc' = [pc EXCEPT ![p] = IF hit \/ ~ok THEN "ct_ret" ELSE "ct_resp"]
    /\ UNCHANGED <<ui, fn, envVars, scanVars, kv, cache, log, nextId>>

\* const cached = await store.get(cacheKey), which may throw; on a miss the
\* code goes on to fetch(crtUrl, ...) and the request leaves
CtCacheGet(p) ==
    /\ pc[p] = "ct_get"
    /\ \E ok \in BOOLEAN :
        LET e == cache[call[p].domain]
            hit == ok /\ CacheHit(e, now)
        IN  /\ call' = [call EXCEPT ![p] =
                    [@ EXCEPT !.readOk = ok,
                              !.found = ok /\ e.present,
                              !.foundAge = IF ok /\ e.present THEN now - e.cachedAt ELSE 0,
                              !.foundBy = IF ok /\ e.present THEN e.by ELSE 0,
                              !.foundSubs = IF ok /\ e.present THEN e.subdomains ELSE <<>>,
                              !.fetched = ~hit,
                              !.result = IF hit THEN CachedResult(e) ELSE @,
                              !.src = IF hit THEN "cache" ELSE @]]
            /\ netActs' = netActs \cup {"cache"} \cup (IF hit THEN {} ELSE {"ct"})
            /\ pc' = [pc EXCEPT ![p] = IF hit THEN "ct_ret" ELSE "ct_resp"]
    /\ UNCHANGED <<ui, fn, envVars, scanVars, kv, cache, log, nextId>>

\* Variant of the live fetch without the checks on the response.
FetchResultUnchecked(mode, entries, domain, t) == ParseCtEntries(entries, domain, t)

\* Variant of the live fetch without the try/catch around it.
FetchResultNoCatch(mode, entries, domain, t) ==
    IF mode = "ok" THEN ParseCtEntries(entries, domain, t) ELSE [ZeroCt EXCEPT !.threw = TRUE]

\* the result of the try block around the live fetch, up to the cache write
FetchResult(mode, entries, domain, t) ==
    IF mode = "ok" THEN ParseCtEntries(entries, domain, t) ELSE ZeroCt

\* Variant of the live fetch that goes on to the cache write however the request ended.
CtResponseAlwaysStore(p, modes) ==
    /\ pc[p] = "ct_resp"
    /\ \E mode \in modes :
        /\ call' = [call EXCEPT ![p] =
                [@ EXCEPT !.mode = mode,
                          !.result = FetchResult(mode, ctBody, call[p].domain, now),
                          !.src = IF mode = "ok" THEN "live" ELSE "zero"]]
        /\ pc' = [pc EXCEPT ![p] = "ct_open2"]
    /\ UNCHANGED <<ui, fn, envVars, scanVars, kv, cache, log, nextId, netActs>>

\* the response arrives (or fetch throws) and is parsed; `modes` are the ways
\* the request may end in the environment at hand
CtResponse(p, modes) ==
    /\ pc[p] = "ct_resp"
    /\ \E mode \in modes :
        /\ call' = [call EXCEPT ![p] =
                [@ EXCEPT !.mode = mode,
                          !.result = FetchResult(mode, ctBody, call[p].domain, now),
                          !.src = IF mode = "ok" THEN "live" ELSE "zero"]]
        /\ pc' = [pc EXCEPT ![p] = IF mode = "ok" THEN "ct_open2" ELSE "ct_ret"]
    /\ UNCHANGED <<ui, fn, envVars, scanVars, kv, cache, log, nextId, netActs>>

\* const store = await getKv()      (before the cache write)
CtOpenWrite(p) ==
    /\ pc[p] = "ct_open2"
    /\ \E ok \in (IF kv THEN {TRUE} ELSE BOOLEAN) :
        /\ kv' = GetKv(ok)
        /\ call' = [call EXCEPT ![p].store = GetKv(ok)]
        /\ netActs' = netActs \cup (IF kv THEN {} ELSE {"cache"})
        /\ pc' = [pc EXCEPT ![p] = IF GetKv(ok) THEN "ct_set" ELSE "ct_ret"]
    /\ UNCHANGED <<ui, fn, envVars, scanVars, cache, log, nextId>>

\* Variant of the cache write that adds the subdomains to those of the entry in place.
CtCacheSetInPlace(p) ==
    /\ pc[p] = "ct_set"
    /\ \E ok \in BOOLEAN :
        /\ cache' = IF ok
                    THEN [cache EXCEPT ![call[p].domain] =
                            [CacheEntry(call[p].result, now, call[p].id) EXCEPT
                                !.subdomains = cache[call[p].domain].subdomains \o @]]
                    ELSE cache
        /\ call' = [call EXCEPT ![p].wrote = ok]
    /\ netActs' = netActs \cup {"cache"}
    /\ pc' = [pc EXCEPT ![p] = "ct_ret"]
    /\ UNCHANGED <<ui, fn, envVars, scanVars, kv, log, nextId>>

\* await store.set(cacheKey, { ...result, cachedAt: Date.now() }), which may throw
CtCacheSet(p) ==
    /\ pc[p] = "ct_set"
    /\ \E ok \in BOOLEAN :
        /\ cache' = IF ok
                    THEN [cache EXCEPT ![call[p].domain] =
                            CacheEntry(call[p].result, now, call[p].id)]
                    ELSE cache
        /\ call' = [call EXCEPT ![p].wrote = ok]
    /\ netActs' = netActs \cup {"cache"}
    /\ pc' = [pc EXCEPT ![p] = "ct_ret"]
    /\ UNCHANGED <<ui, fn, envVars, scanVars, kv, log, nextId>>

(***************************************************************************)
(* The GET handler.                                                        *)
(***************************************************************************)
\* if (!domain): the parameter is absent or the empty string
DomainMissing(param) == ~param.has \/ param.v = ""

PendingOutcome(q) == Outcome(q.subdomain, q.type, <<>>, FALSE, "", FALSE)

\* Variant of the dispatch that waits for detectWildcard before any query is
\* launched.
LaunchWildcardOnly(ctd) ==
    /\ queriesToRun' = BuildQueries(ctd)
    /\ ctSubdomains' = CtSubdomainsOf(ctd)
    /\ results' = <<>>
    /\ pending' = {0}
    /\ netActs' = netActs \cup {"probe"}
    /\ pc' = [pc EXCEPT ![Handler] = "wait"]
    /\ UNCHANGED <<wildcard, asm, response>>

\* From the work list to `await Promise.all([...])`: detectWildcard and every
\* queryDns are called, each sends its request.
Launch(ctd) ==
    /\ queriesToRun' = BuildQueries(ctd)
    /\ ctSubdomains' = CtSubdomainsOf(ctd)
    /\ results' = [i \in 1..Len(FlattenQueries(BuildQueries(ctd))) |->
                        PendingOutcome(FlattenQueries(BuildQueries(ctd))[i])]
    /\ pending' = 0..Len(FlattenQueries(BuildQueries(ctd)))
    /\ netActs' = netActs \cup {"probe", "dns"}
    /\ pc' = [pc EXCEPT ![Handler] = "wait"]
    /\ UNCHANGED <<wildcard, asm, response>>

\* Variant of the handler that dispatches without waiting for fetchCtSubdomains.
GETDispatchFirst ==
    /\ pc[Handler] = "start"
    /\ IF DomainMissing(req.domain)
       THEN /\ response' = BadRequest
            /\ pc' = [pc EXCEPT ![Handler] = "done"]
            /\ UNCHANGED <<cleanDomain, queriesToRun, ctSubdomains, results, pending,
                           wildcard, asm, netActs>>
       ELSE /\ cleanDomain' = CleanDomain(req.domain.v)
            /\ Launch(NullCt)
    /\ UNCHANGED <<ui, fn, envVars, ctVars, req, ctData, ctFailed>>

\* GET, up to its first await: the parameters, the 400, then either the call
\* of fetchCtSubdomains or the dispatch
GET ==
    /\ pc[Handler] = "start"
    /\ IF DomainMissing(req.domain)
       THEN /\ response' = BadRequest
            /\ pc' = [pc EXCEPT ![Handler] = "done"]
            /\ UNCHANGED <<cleanDomain, ctData, ctFailed, queriesToRun, ctSubdomains, results,
                           pending, wildcard, asm, netActs, call, nextId>>
       ELSE /\ cleanDomain' = CleanDomain(req.domain.v)
            /\ IF req.ct
               THEN /\ StartCall(Handler, CleanDomain(req.domain.v), "handler")
                    /\ pc' = [pc EXCEPT ![Handler] = "ct_open"]
                    /\ UNCHANGED <<ctData, ctFailed, queriesToRun, ctSubdomains, results,
                                   pending, wildcard, asm, response, netActs>>
               ELSE /\ Launch(NullCt)
                    /\ UNCHANGED <<ctData, ctFailed, call, nextId>>
    /\ UNCHANGED <<ui, fn, envVars, req, kv, cache, log>>

\* ctData = await fetchCtSubdomains(cleanDomain), then on to the dispatch
HandlerCtReturn ==
    /\ pc[Handler] = "ct_ret"
    /\ call[Handler].from = "handler"
    /\ ctData' = call[Handler].result
    /\ ctFailed' = (call[Handler].fetched /\ call[Handler].mode # "ok")
    /\ call' = [call EXCEPT ![Handler] = NoCall]
    /\ IF call[Handler].result.threw
       THEN /\ response' = ServerError
            /\ pc' = [pc EXCEPT ![Handler] = "done"]
            /\ UNCHANGED <<queriesToRun, ctSubdomains, results, pending, wildcard, asm,
                           netActs>>
       ELSE Launch(call[Handler].result)
    /\ UNCHANGED <<ui, fn, envVars, req, cleanDomain, kv, cache, log, nextId>>

\* The promises share no state, and Promise.all keeps their results in launch
\* order whatever the order they settle in: the model settles them in launch
\* order, detectWildcard (promise 0) first.
InOrder(i) == i \in pending /\ (i = 0 \/ (i - 1) \notin pending)

\* detectWildcard settles: its four probes have answered or failed
DetectWildcardReturn ==
    /\ pc[Handler] = "wait"
    /\ InOrder(0)
    /\ \E a \in ProbeReplies("A", cleanDomain), b \in ProbeReplies("AAAA", cleanDomain),
          c \in ProbeReplies("TXT", cleanDomain), d \in ProbeReplies("CAA", cleanDomain) :
            wildcard' = detectWildcard(<<a, b, c, d>>)
    /\ pending' = pending \ {0}
    /\ UNCHANGED <<ui, fn, envVars, ctVars, req, cleanDomain, ctData, ctFailed, queriesToRun,
                   ctSubdomains, results, asm, response, pc, netActs>>

\* one queryDns settles
QueryDnsReturn ==
    /\ pc[Handler] = "wait"
    /\ \E i \in 1..Len(results) :
        /\ InOrder(i)
        /\ \E reply \in DnsReplies(results[i].subdomain, results[i].type, cleanDomain) :
                results' = [results EXCEPT ![i] =
                                queryDns(results[i].subdomain, results[i].type, reply)]
        /\ pending' = pending \ {i}
    /\ UNCHANGED <<ui, fn, envVars, ctVars, req, cleanDomain, ctData, ctFailed, queriesToRun,
                   ctSubdomains, wildcard, asm, response, pc, netActs>>

\* the filters and the flattening, for the outcomes rs and the wildcard info w
AssemblyOf(rs, w) ==
    LET filtered == WildcardFilteredSet(ctSubdomains)
        withCname == SubdomainsWithCname(rs)
        afterWildcard == AfterWildcard(rs, w, filtered)
    IN  [filtered |-> filtered, withCname |-> withCname, afterWildcard |-> afterWildcard,
         allRecords |->
            FlattenRecords(rs, AfterCname(rs, afterWildcard, withCname), 1)]

Assembly == AssemblyOf(results, wildcard)

\* ...(wildcard.hasWildcard && { wildcard: { detected, cname, targets } })
WildcardField(w) ==
    IF w.hasWildcard
    THEN [present |-> TRUE, detected |-> TRUE, cname |-> w.wildcardCname,
          targets |-> w.wildcardTargets]
    ELSE Absent

\* Variant of the dnssec field that reports a validation only when no outcome
\* has an error.
DnssecFieldNoErrors(rs) ==
    IF req.dnssec
    THEN [present |-> TRUE, enabled |-> TRUE,
          valid |-> /\ \E i \in 1..Len(rs) : rs[i].dnssecValid
                    /\ \A i \in 1..Len(rs) : ~rs[i].hasError]
    ELSE Absent

\* ...(dnssecParam && { dnssec: { enabled: true, valid: dnssecValid } })
DnssecField(rs) ==
    IF req.dnssec
    THEN [present |-> TRUE, enabled |-> TRUE,
          valid |-> \E i \in 1..Len(rs) : rs[i].dnssecValid]
    ELSE Absent

\* Variant of the ct field that is left out when no certificate was found.
CtFieldIfCerts ==
    IF ~ctData.isNull /\ ctData.totalCerts > 0
    THEN [present |-> TRUE, enabled |-> TRUE, totalCerts |-> ctData.totalCerts,
          activeCerts |-> ctData.activeCerts,
          discoveredSubdomains |-> Len(ctSubdomains), cached |-> ctData.cached]
    ELSE Absent

\* ...(ctData && { ct: { enabled, totalCerts, activeCerts, discoveredSubdomains, cached } })
CtField ==
    IF ~ctData.isNull
    THEN [present |-> TRUE, enabled |-> TRUE, totalCerts |-> ctData.totalCerts,
          activeCerts |-> ctData.activeCerts,
          discoveredSubdomains |-> Len(ctSubdomains), cached |-> ctData.cached]
    ELSE Absent

\* Response.json({ success: true, ... }), for the outcomes rs and the wildcard info w
SuccessOf(records, rs, w) ==
    [status |-> 200, success |-> TRUE, error |-> "", domain |-> cleanDomain,
     records |-> records, totalRecords |-> Len(records),
     wildcard |-> WildcardField(w), dnssec |-> DnssecField(rs), ct |-> CtField]

Success(records) == SuccessOf(records, results, wildcard)

\* Variant of the join that goes on as soon as detectWildcard has settled.
JoinedOnWildcard == 0 \notin pending

\* await Promise.all([wildcardPromise, ...queryPromises]) goes on: every
\* promise has settled
Joined == pending = {}

\* Promise.all settles; the filters, the sort and the response
Respond ==
    /\ pc[Handler] = "wait"
    /\ Joined
    /\ IF \E i \in 1..Len(results) : results[i].rejected
       THEN /\ response' = ServerError
            /\ asm' = asm
       ELSE LET a == Assembly
            IN  /\ asm' = a
                /\ response' = Success(SortRecords(a.allRecords))
    /\ pc' = [pc EXCEPT ![Handler] = "done"]
    /\ UNCHANGED <<ui, fn, envVars, ctVars, req, cleanDomain, ctData, ctFailed, queriesToRun,
                   ctSubdomains, results, pending, wildcard, netActs>>

Next ==
    \/ GET
    \/ CtOpenRead(Handler)
    \/ CtCacheGet(Handler)
    \/ CtResponse(Handler, CtModes)
    \/ CtOpenWrite(Handler)
    \/ CtCacheSet(Handler)
    \/ HandlerCtReturn
    \/ DetectWildcardReturn
    \/ QueryDnsReturn
    \/ Respond

Spec == Init /\ [][Next]_vars

(***************************************************************************)
(* fetchCtSubdomains on its own: callers that call it again and again,     *)
(* concurrently, while the clock advances and the CT service changes.      *)
(***************************************************************************)
\* the ways a CT request of a direct caller ends
CtModesDirect == {"transport", "ok"}

\* the domains the direct callers ask for
CtDomains == {"example.com"}

InitCt ==
    /\ InitCommon
    /\ cache = EmptyCache
    /\ ctBody = BodyA
    /\ pc = [p \in Procs |-> "idle"]
    /\ req = [domain |-> NoParam, dnssec |-> FALSE, ct |-> FALSE]

\* a caller calls fetchCtSubdomains(domain)
CallFetchCt(p) ==
    /\ pc[p] = "idle"
    /\ nextId <= MaxCalls
    \* the callers are alike: caller 2 calls only while caller 1 is in a call
    /\ (p = 1 \/ pc[1] # "idle")
    /\ \E d \in CtDomains : StartCall(p, d, "direct")
    /\ pc' = [pc EXCEPT ![p] = "ct_open"]
    /\ UNCHANGED <<ui, fn, envVars, scanVars, kv, cache, log, netActs>>

\* the cache entry a call leaves behind it for the next: the one it wrote, or
\* the one it was served from (0: none)
EntryLeft(c) == IF c.wrote THEN c.id ELSE IF c.src = "cache" THEN c.foundBy ELSE 0

\* what is remembered of a call that returned
Logged(c) ==
    [id |-> c.id, domain |-> c.domain, subdomains |-> c.result.subdomains,
     cached |-> c.result.cached, entry |-> EntryLeft(c)]

\* fetchCtSubdomains returns to its caller
CtReturn(p) ==
    /\ pc[p] = "ct_ret"
    /\ call[p].from = "direct"
    /\ log' = Append(log, Logged(call[p]))
    /\ call' = [call EXCEPT ![p] = NoCall]
    /\ pc' = [pc EXCEPT ![p] = "idle"]
    /\ UNCHANGED <<ui, fn, envVars, scanVars, kv, cache, nextId, netActs>>

\* time passes, as long as a call is under way or can still be made
Tick ==
    /\ ticks < MaxTicks
    /\ (nextId <= MaxCalls \/ \E p \in Procs : pc[p] # "idle")
    /\ now' = now + TickStep
    /\ ticks' = ticks + 1
    /\ UNCHANGED <<ui, fn, ctBody, ctVars, scanVars, pc, netActs>>

\* certificates are issued: the CT service lists other entries (seen only by
\* a request that is under way)
CtServiceChange ==
    /\ ctBody = BodyA
    /\ \E p \in Procs : pc[p] = "ct_resp"
    /\ ctBody' = BodyB
    /\ UNCHANGED <<ui, fn, now, ticks, ctVars, scanVars, pc, netActs>>

NextCt ==
    \/ \E p \in Procs :
        \/ CallFetchCt(p)
        \/ CtOpenRead(p)
        \/ CtCacheGet(p)
        \/ CtResponse(p, CtModesDirect)
        \/ CtOpenWrite(p)
        \/ CtCacheSet(p)
        \/ CtReturn(p)
    \/ Tick
    \/ CtServiceChange

SpecCt == InitCt /\ [][NextCt]_vars


(***************************************************************************)
(* The functions on their own: queryDns and detectWildcard called on the   *)
(* replies of a bounded set, and the assembly of a scan run on two lists   *)
(* of outcomes that are to be compared.                                    *)
(***************************************************************************)
FnDomain == "example.com"

\* the payload of an answer of the kind `type`
FnData(type) ==
    CASE type = "MX" -> "10 mail.example.com."
      [] type = "TXT" -> WildTxtData
      [] type = "CNAME" -> OtherCnameData
      [] OTHER -> OtherIp

\* a reply with an upstream error status that carries an answer section
StatusWithAnswer(status, answers) ==
    [DnsStatus(status) EXCEPT !.hasAnswer = TRUE, !.Answer = answers]

\* replies of the resolver of every class that queryDns tells apart
FnReplies(subdomain, type) ==
    LET n == FullDomain(subdomain, FnDomain) IN
    {NetFail, HttpFail(404), HttpFail(500),
     DnsStatus(0), DnsStatus(1), DnsStatus(2), DnsStatus(3), DnsStatus(5),
     StatusWithAnswer(2, <<Answer(n, DNS_TYPE_MAP(type), FnData(type))>>),
     Answered(<<>>, FALSE),
     Answered(<<Answer(n, DNS_TYPE_MAP(type), FnData(type))>>, TRUE),
     Answered(<<Answer(n, 5, WildCnameData),
                Answer(WildCnameData, DNS_TYPE_MAP(type), FnData(type))>>, FALSE)}

\* payloads of the answers of each kind, as resolvers write them: absolute
\* names with and without the final dot, the root name, quoted texts
FnPayloads(type) ==
    CASE type = "A" -> {WildIp, OtherIp}
      [] type = "AAAA" -> {"2001:db8::1"}
      [] type \in {"CNAME", "NS"} -> {OtherCnameData, "host.example.net", "."}
      [] type = "MX" -> {"10 mail.example.com.", "20 mail.example.com", "0 ."}
      [] type = "SOA" ->
            {"ns1.example.com. hostmaster.example.com. 2024010101 7200 3600 1209600 300",
             "ns1.example.com hostmaster.example.com 1 7200 3600 1209600 300"}
      [] type = "SRV" -> {"10 5 5060 sip.example.com.", "0 0 0 ."}
      [] type = "TXT" -> {WildTxtData, "\"\"", "\"a\" \"b\"", "\"ends.\"",
                          "\"\"quoted\"\"", "v=spf1 -all"}

\* texts as the resolver that does not quote them writes them
FnTexts(type) ==
    IF type = "TXT" THEN {"google-site-verification=abc", "Contact postmaster@example.com."}
    ELSE {}

FnNames == {FnDomain \o ".", "www." \o FnDomain, "."}

FnQueries == {<<"@", "A">>, <<"@", "MX">>, <<"www", "CNAME">>, <<"_dkim", "TXT">>}

\* responses of one wildcard probe: null, NXDOMAIN, an empty answer section,
\* an error status with an answer section, an address, a CNAME chain of one
\* hop and of two hops, a text
FnProbeReplies ==
    LET n == "_wildcard-test-0." \o FnDomain IN
    {NetFail, DnsStatus(3), Answered(<<>>, FALSE),
     StatusWithAnswer(2, <<Answer(n, 1, OtherIp)>>),
     Answered(<<Answer(n, 1, WildIp)>>, FALSE),
     Answered(<<Answer(n, 5, WildCnameData), Answer(WildCnameData, 1, WildIp)>>, FALSE),
     Answered(<<Answer(n, 5, WildCnameData), Answer(WildCnameData, 5, OtherCnameData),
                Answer(OtherCnameData, 1, WildIp)>>, FALSE),
     Answered(<<Answer(n, 16, WildTxtData)>>, FALSE)}

\* five queries of a scan with the answer each gets when its name exists
FnScanQueries ==
    << [subdomain |-> "@", type |-> "A",
        reply |-> Answered(<<Answer(FnDomain, 1, WildIp)>>, TRUE)],
       [subdomain |-> "@", type |-> "TXT",
        reply |-> Answered(<<Answer(FnDomain, 16, WildTxtData),
                             Answer(FnDomain, 16, "\"google-site-verification=abc\"")>>, FALSE)],
       [subdomain |-> "www", type |-> "CNAME",
        reply |-> Answered(<<Answer("www." \o FnDomain, 5, OtherCnameData)>>, FALSE)],
       [subdomain |-> "www", type |-> "A",
        reply |-> Answered(<<Answer("www." \o FnDomain, 5, OtherCnameData),
                             Answer(OtherCnameData, 1, OtherIp)>>, FALSE)],
       [subdomain |-> "ftp", type |-> "A",
        reply |-> Answered(<<Answer("ftp." \o FnDomain, 1, WildIp),
                             Answer("ftp." \o FnDomain, 1, OtherIp)>>, FALSE)] >>

\* the same queries where the names outside `exist` get NXDOMAIN
FnScanList(exist) ==
    [i \in 1..Len(FnScanQueries) |->
        IF i \in exist THEN FnScanQueries[i]
        ELSE [FnScanQueries[i] EXCEPT !.reply = DnsStatus(3)]]

\* the ways a query fails: transport, HTTP status, upstream status
FnErrors == {NetFail, HttpFail(503), DnsStatus(2)}

FnWildcards ==
    {NoWildcard, detectWildcard(<<Answered(<<Answer("x." \o FnDomain, 1, WildIp)>>, FALSE)>>)}

\* the orders in which Promise.all could be handed the promises
FnPermutations ==
    {p \in [1..Len(FnScanQueries) -> 1..Len(FnScanQueries)] :
        \A i, j \in 1..Len(FnScanQueries) : p[i] = p[j] => i = j}

InitFn ==
    /\ ui = NoUi
    /\ now = StartNow
    /\ ticks = 0
    /\ kv = FALSE
    /\ cache = EmptyCache
    /\ ctBody = BodyA
    /\ pc = [p \in Procs |-> "off"]
    /\ call = [p \in Procs |-> NoCall]
    /\ log = <<>>
    /\ nextId = 1
    /\ cleanDomain = FnDomain
    /\ ctFailed = FALSE
    /\ queriesToRun = <<>>
    /\ results = <<>>
    /\ pending = {}
    /\ wildcard = NoWildcard
    /\ asm = NoAsm
    /\ response = NoResponse
    /\ netActs = {}
    /\ \/ /\ req = [domain |-> Param(FnDomain), dnssec |-> FALSE, ct |-> FALSE]
          /\ ctData = NullCt
          /\ ctSubdomains = <<>>
          /\ \/ \E q \in FnQueries : \E reply \in FnReplies(q[1], q[2]) :
                    fn = [op |-> "queryDns", done |-> FALSE, subdomain |-> q[1],
                          type |-> q[2], reply |-> reply]
             \/ \E responses \in [1..Len(typesToCheck) -> FnProbeReplies] :
                    fn = [op |-> "detectWildcard", done |-> FALSE, responses |-> responses]
             \/ \E type \in RecordTypes, name \in FnNames, ttl \in {60, 300} :
                \E data \in FnPayloads(type) :
                    fn = [op |-> "parseRecord", done |-> FALSE, type |-> type,
                          answer |-> [name |-> name, type |-> DNS_TYPE_MAP(type),
                                      TTL |-> ttl, data |-> data]]
             \/ \E type \in WILDCARD_AFFECTED_TYPES \cap RecordTypes,
                   subdomain \in {"www", "mail", "ftp"} :
                \E data \in FnPayloads(type) \cup FnTexts(type) :
                    fn = [op |-> "wildcardMatch", done |-> FALSE, subdomain |-> subdomain,
                          type |-> type, data |-> data]
             \/ \E exist \in SUBSET (1..Len(FnScanQueries)), w \in FnWildcards,
                   p \in FnPermutations :
                    fn = [op |-> "permuted", done |-> FALSE, queries |-> FnScanList(exist),
                          wildcard |-> w, order |-> p]
       \/ /\ req \in [domain : {Param(FnDomain)}, dnssec : BOOLEAN, ct : BOOLEAN]
          /\ ctData = IF req.ct THEN CtResult(<<"ftp", "staging">>, 3, 2, FALSE) ELSE NullCt
          /\ ctSubdomains = CtSubdomainsOf(ctData)
          /\ \E exist \in SUBSET (1..Len(FnScanQueries)), w \in FnWildcards,
                i \in 1..Len(FnScanQueries), e \in FnErrors :
                /\ i \notin exist
                /\ fn = [op |-> "twin", done |-> FALSE, queries |-> FnScanList(exist),
                         wildcard |-> w, i |-> i, error |-> e]

\* queryDns(domain, subdomain, type, resolver, requestDnssec) is called and returns
EvalQueryDns ==
    /\ fn.op = "queryDns" /\ ~fn.done
    /\ fn' = [op |-> fn.op, done |-> TRUE, subdomain |-> fn.subdomain, type |-> fn.type,
              reply |-> fn.reply, out |-> queryDns(fn.subdomain, fn.type, fn.reply)]
    /\ UNCHANGED <<ui, envVars, ctVars, scanVars, pc, netActs>>

\* detectWildcard(domain, resolver) is called and returns
EvalDetectWildcard ==
    /\ fn.op = "detectWildcard" /\ ~fn.done
    /\ fn' = [op |-> fn.op, done |-> TRUE, responses |-> fn.responses,
              out |-> detectWildcard(fn.responses)]
    /\ UNCHANGED <<ui, envVars, ctVars, scanVars, pc, netActs>>

\* parseRecord(answer, type) is called and returns
EvalParseRecord ==
    /\ fn.op = "parseRecord" /\ ~fn.done
    /\ fn' = [op |-> fn.op, done |-> TRUE, answer |-> fn.answer, type |-> fn.type,
              out |-> parseRecord(fn.answer, fn.type)]
    /\ UNCHANGED <<ui, envVars, ctVars, scanVars, pc, netActs>>

\* A wildcard answers the probe with the payload fn.data; the query of the
\* eligible subdomain fn.subdomain gets an answer with the same payload; the
\* wildcard filter of the handler is applied to the outcome.
EvalWildcardMatch ==
    /\ fn.op = "wildcardMatch" /\ ~fn.done
    /\ LET code == DNS_TYPE_MAP(fn.type)
           probe == Answered(<<Answer("_wildcard-test-0." \o FnDomain, code, fn.data)>>, FALSE)
           w == detectWildcard(<<probe, DnsStatus(3), DnsStatus(3), DnsStatus(3)>>)
           result == queryDns(fn.subdomain, fn.type,
                              Answered(<<Answer(FullDomain(fn.subdomain, FnDomain),
                                                code, fn.data)>>, FALSE))
       IN  fn' = [op |-> fn.op, done |-> TRUE, subdomain |-> fn.subdomain,
                  type |-> fn.type, data |-> fn.data, wildcard |-> w, result |-> result,
                  kept |-> WildcardFilter(result, w, WildcardFilteredSet(<<>>))]
    /\ UNCHANGED <<ui, envVars, ctVars, scanVars, pc, netActs>>

\* the outcomes of the queries qs, each with the reply it got
OutcomesOf(qs) == [i \in 1..Len(qs) |-> queryDns(qs[i].subdomain, qs[i].type, qs[i].reply)]

\* the handler from Promise.all on: filters, flattening, sort and response
ScanResponse(rs, w) == SuccessOf(SortRecords(AssemblyOf(rs, w).allRecords), rs, w)

\* two scans that differ in the reply to the query i alone
EvalTwinScans ==
    /\ fn.op = "twin" /\ ~fn.done
    /\ fn' = [op |-> fn.op, done |-> TRUE, queries |-> fn.queries, wildcard |-> fn.wildcard,
              i |-> fn.i, error |-> fn.error,
              first |-> ScanResponse(OutcomesOf(fn.queries), fn.wildcard),
              second |-> ScanResponse(
                            OutcomesOf([fn.queries EXCEPT ![fn.i].reply = fn.error]),
                            fn.wildcard)]
    /\ UNCHANGED <<ui, envVars, ctVars, scanVars, pc, netActs>>

\* the assembly run on the outcomes list and on a permutation of it
EvalPermutedScan ==
    /\ fn.op = "permuted" /\ ~fn.done
    /\ fn' = [op |-> fn.op, done |-> TRUE, queries |-> fn.queries, wildcard |-> fn.wildcard,
              order |-> fn.order,
              first |-> ScanResponse(OutcomesOf(fn.queries), fn.wildcard),
              second |-> ScanResponse(
                            OutcomesOf([k \in 1..Len(fn.queries) |-> fn.queries[fn.order[k]]]),
                            fn.wildcard)]
    /\ UNCHANGED <<ui, envVars, ctVars, scanVars, pc, netActs>>

NextFn ==
    \/ EvalQueryDns
    \/ EvalDetectWildcard
    \/ EvalParseRecord
    \/ EvalWildcardMatch
    \/ EvalTwinScans
    \/ EvalPermutedScan

SpecFn == InitFn /\ [][NextFn]_vars


(***************************************************************************)
(* A scan whose promises settle in any order: detectWildcard and the first *)
(* RaceWidth queries settle at any time, each of these queries with its    *)
(* reply or with a failure; the other queries settle in launch order.      *)
(***************************************************************************)
RaceWidth == 2

\* the promises that settle at any time: 0 is detectWildcard
Racing == 0..RaceWidth

\* the zone of the domain of this scan
RaceZone(subdomain, type, domain) ==
    LET n == FullDomain(subdomain, domain)
        q == <<subdomain, type>>
    IN  CASE q = <<"@", "A">> -> Answered(<<Answer(n, 1, OtherIp)>>, TRUE)
          [] q = <<"@", "TXT">> -> Answered(<<Answer(n, 16, WildTxtData)>>, FALSE)
          [] q = <<"www", "CNAME">> -> Answered(<<Answer(n, 5, OtherCnameData)>>, FALSE)
          [] q = <<"ftp", "A">> ->
                Answered(<<Answer(n, 1, WildIp), Answer(n, 1, OtherIp)>>, FALSE)
          [] q = <<"staging", "A">> -> Answered(<<Answer(n, 1, OtherIp)>>, FALSE)
          [] OTHER -> DnsStatus(3)

\* the ways the query of promise i may end
RaceReplies(i, subdomain, type, domain) ==
    {RaceZone(subdomain, type, domain)} \cup (IF i \in Racing THEN {NetFail, DnsStatus(2)} ELSE {})

\* the responses to the four probes: the zone has a wildcard address and the
\* first probe may fail
RaceProbeResponses ==
    {<<a, DnsStatus(3), DnsStatus(3), NetFail>> :
        a \in {NetFail, Answered(<<Answer("_wildcard-test-0.example.com", 1, WildIp)>>, FALSE)}}

InitRace ==
    /\ InitCommon
    /\ cache = EmptyCache
    /\ ctBody = BodyA
    /\ pc = [p \in Procs |-> IF p = Handler THEN "start" ELSE "off"]
    /\ req \in [domain : {Param(" HTTPS://Example.com/dns ")}, dnssec : {TRUE}, ct : BOOLEAN]

\* the promise i may settle now
CanSettle(i) ==
    /\ i \in pending
    /\ (i \in Racing \/ \A j \in pending \ Racing : j >= i)

\* detectWildcard settles
RaceDetectWildcardReturn ==
    /\ pc[Handler] = "wait"
    /\ CanSettle(0)
    /\ \E responses \in RaceProbeResponses : wildcard' = detectWildcard(responses)
    /\ pending' = pending \ {0}
    /\ UNCHANGED <<ui, fn, envVars, ctVars, req, cleanDomain, ctData, ctFailed, queriesToRun,
                   ctSubdomains, results, asm, response, pc, netActs>>

\* one queryDns settles
RaceQueryDnsReturn ==
    /\ pc[Handler] = "wait"
    /\ \E i \in 1..Len(results) :
        /\ CanSettle(i)
        /\ \E reply \in RaceReplies(i, results[i].subdomain, results[i].type, cleanDomain) :
                results' = [results EXCEPT ![i] =
                                queryDns(results[i].subdomain, results[i].type, reply)]
        /\ pending' = pending \ {i}
    /\ UNCHANGED <<ui, fn, envVars, ctVars, req, cleanDomain, ctData, ctFailed, queriesToRun,
                   ctSubdomains, wildcard, asm, response, pc, netActs>>

NextRace ==
    \/ GET
    \/ CtOpenRead(Handler)
    \/ CtCacheGet(Handler)
    \/ CtResponse(Handler, CtModesDirect)
    \/ CtOpenWrite(Handler)
    \/ CtCacheSet(Handler)
    \/ HandlerCtReturn
    \/ RaceDetectWildcardReturn
    \/ RaceQueryDnsReturn
    \/ Respond

SpecRace == InitRace /\ [][NextRace]_vars

\* The handler goes on from a position where it waits for nothing but its own
\* computation or the body of the CT response: the start of GET, the parse of
\* the CT response, the code after Promise.all.
Resumes ==
    \/ /\ pc[Handler] = "start"
       /\ \E q \in {"done", "ct_open", "wait"} : pc' = [pc EXCEPT ![Handler] = q]
    \/ /\ pc[Handler] = "ct_resp"
       /\ \E q \in {"ct_open2", "ct_ret"} : pc' = [pc EXCEPT ![Handler] = q]
    \/ /\ pc[Handler] = "wait"
       /\ Joined
       /\ pc' = [pc EXCEPT ![Handler] = "done"]

\* Every outbound call completes (the store opens or fails, the cache read and
\* write return, the CT response arrives, every probe and every query
\* settles), and the event loop runs the handler when what it awaits is there.
SpecRaceFair ==
    /\ SpecRace
    /\ WF_vars(CtOpenRead(Handler))
    /\ WF_vars(CtCacheGet(Handler))
    /\ WF_vars(CtOpenWrite(Handler))
    /\ WF_vars(CtCacheSet(Handler))
    /\ WF_vars(HandlerCtReturn)
    /\ WF_vars(RaceDetectWildcardReturn)
    /\ WF_vars(RaceQueryDnsReturn)
    /\ WF_pc(Resumes)


(***************************************************************************)
(* The DnsMonitor component in the browser.  ui holds its signals (domain, *)
(* isLoading, result, error, initialLoadDone), the fragment of the URL     *)
(* (hash, without the #), the lookup requests that are under way (flight)  *)
(* and the number of calls of handleLookup so far (lookups).  A result or  *)
(* an error carries the number of the call that set it (by).               *)
(***************************************************************************)
MaxLookups == 3

\* what the user may type into the input
UiDomains == {"", " ", "example.com", "example.org"}

\* the fragments the page may be opened with
UiHashes == {"", "example.com"}

\* how a lookup request may end: data.success, !data.success, fetch or json throws
UiOutcomes == {"success", "failure", "throws"}

\* a signal that holds a value set by the call `by` of handleLookup
SignalValue(text, by) == [null |-> FALSE, by |-> by, text |-> text]

InitUi ==
    /\ InitCommon
    /\ cache = EmptyCache
    /\ ctBody = BodyA
    /\ pc = [p \in Procs |-> "off"]
    /\ req = [domain |-> NoParam, dnssec |-> FALSE, ct |-> FALSE]

\* handleLookup up to its first await: the signals after the call, given u
handleLookup(u) ==
    LET id == u.lookups + 1
        domainValue == Trim(u.domain)
        cleared == [u EXCEPT !.lookups = id, !.error = Null, !.result = Null]
    IN  IF domainValue = ""
        THEN [cleared EXCEPT !.error = SignalValue("Please enter a domain name", id)]
        ELSE [cleared EXCEPT !.isLoading = TRUE,
                             !.flight = @ \cup {[id |-> id, domain |-> domainValue]}]

\* handleLookup after `await fetch` and `await response.json()`, for the
\* request r: the response is there (or one of the two threw), then finally
LookupSettles ==
    /\ \E r \in ui.flight : \E outcome \in UiOutcomes :
        ui' = [ui EXCEPT
                 !.flight = @ \ {r},
                 !.error = CASE outcome = "success" -> @
                             [] outcome = "failure" -> SignalValue("DNS lookup failed", r.id)
                             [] OTHER -> SignalValue("Failed to perform DNS lookup", r.id),
                 !.result = IF outcome = "success" THEN SignalValue(r.domain, r.id) ELSE @,
                 !.hash = IF outcome = "success" THEN r.domain ELSE @,
                 !.isLoading = FALSE]
    /\ UNCHANGED <<fn, envVars, ctVars, scanVars, pc, netActs>>

\* the Clear button, rendered when a result or an error is shown
handleClear ==
    /\ ui.mounted
    /\ ~ui.result.null \/ ~ui.error.null
    /\ ui' = [ui EXCEPT !.domain = "", !.result = Null, !.error = Null, !.hash = ""]
    /\ UNCHANGED <<fn, envVars, ctVars, scanVars, pc, netActs>>

\* handleHashChange: called once by the effect when the component is mounted,
\* with the fragment the page was opened with, and then on every hashchange
\* event, when the user has put another fragment into the address bar
handleHashChange ==
    /\ \E h \in (IF ui.mounted THEN UiHashes \ {ui.hash} ELSE UiHashes) :
        LET u == [ui EXCEPT !.mounted = TRUE, !.hash = h] IN
        IF h # "" /\ ~u.initialLoadDone
        THEN /\ u.lookups < MaxLookups
             /\ ui' = handleLookup([u EXCEPT !.domain = h, !.initialLoadDone = TRUE])
        ELSE ui' = [u EXCEPT !.initialLoadDone = TRUE]
    /\ UNCHANGED <<fn, envVars, ctVars, scanVars, pc, netActs>>

\* the user types into the input
onInput ==
    /\ ui.mounted
    /\ \E v \in UiDomains \ {ui.domain} : ui' = [ui EXCEPT !.domain = v]
    /\ UNCHANGED <<fn, envVars, ctVars, scanVars, pc, netActs>>

\* the user presses Enter in the input
onKeyDown ==
    /\ ui.mounted
    /\ ui.lookups < MaxLookups
    /\ ui' = handleLookup(ui)
    /\ UNCHANGED <<fn, envVars, ctVars, scanVars, pc, netActs>>

\* the user clicks the Scan button, which is disabled when the input is blank
\* and while isLoading is set
onClick ==
    /\ ui.mounted
    /\ ~(Trim(ui.domain) = "" \/ ui.isLoading)
    /\ ui.lookups < MaxLookups
    /\ ui' = handleLookup(ui)
    /\ UNCHANGED <<fn, envVars, ctVars, scanVars, pc, netActs>>

NextUi ==
    \/ handleHashChange
    \/ onInput
    \/ onKeyDown
    \/ onClick
    \/ LookupSettles
    \/ handleClear

SpecUi == InitUi /\ [][NextUi]_vars


(***************************************************************************)
(* Properties of the GET handler (specification Spec).                     *)
(***************************************************************************)
Done == pc[Handler] = "done"

\* the handler answered with the success response
Scanned == Done /\ response.success

\* the subdomains of the static catalog
CatalogNames == {QUERIES_TO_RUN[k].subdomain : k \in 1..Len(QUERIES_TO_RUN)}

\* the kinds the static catalog queries for the subdomain s
CatalogKinds(s) ==
    UNION {Range(QUERIES_TO_RUN[k].types) :
            k \in {n \in 1..Len(QUERIES_TO_RUN) : QUERIES_TO_RUN[n].subdomain = s}}

\* the kinds dispatched to the resolver for the subdomain s
DispatchedKinds(s) == {results[i].type : i \in {n \in 1..Len(results) : results[n].subdomain = s}}

\* C1: if the domain parameter is missing, or is empty once trimmed,
\* lowercased and stripped of its scheme and path, the handler answers 400
\* "Domain is required" and no outbound call (CT fetch, cache access, wildcard
\* probe, DNS query) is ever made.
C1_InputErrorNoNetwork ==
    (~req.domain.has \/ StripPath(StripScheme(ToLowerCase(Trim(req.domain.v)))) = "")
        => /\ netActs = {}
           /\ (Done => response = BadRequest)

\* C2: a request with a non-empty domain parameter is answered with the
\* success response whatever fails among the DNS queries, the wildcard
\* probes, the CT source and the cache; the only failure response is the 400
\* of the input error.
C2_SuccessUnderFailures ==
    Done =>
        IF req.domain.has /\ req.domain.v # ""
        THEN response.success /\ response.status = 200
        ELSE ~response.success /\ response.status = 400
                /\ response.error = "Domain is required"

\* a scan that succeeded although the store could not be opened, the CT
\* request failed, a wildcard probe failed and a DNS query failed
C2_Witness ==
    /\ Scanned
    /\ ctFailed /\ ~kv /\ "cache" \in netActs
    /\ \E i \in 1..Len(results) : results[i].hasError /\ results[i].error = "fetch failed"

\* the wildcard filter removes r: an affected kind and a string value equal
\* to a wildcard target
C3_Matches(r, targets) ==
    /\ r.type \in {"A", "AAAA", "CNAME", "TXT", "CAA"}
    /\ DOMAIN r.value = {"str"}
    /\ \E k \in 1..Len(targets) : targets[k] = r.value.str

\* C3: when a wildcard was detected, the wildcard filter removes a record of
\* an outcome of a filter-eligible subdomain if and only if the record's kind
\* is A, AAAA, CNAME, TXT or CAA and its string value equals a recorded
\* wildcard target; the other records stay, in their order.
C3_WildcardFilterExact ==
    (Scanned /\ wildcard.hasWildcard) =>
        \A i \in 1..Len(results) :
            results[i].subdomain \in asm.filtered =>
                asm.afterWildcard[i] =
                    SelectSeq(results[i].records,
                              LAMBDA r : ~C3_Matches(r, wildcard.wildcardTargets))

\* the wildcard target is 198.51.100.1: of the two A records of ftp the one
\* with that address is removed and the one with 192.0.2.5 is kept
C3_Witness ==
    /\ Scanned /\ wildcard.hasWildcard
    /\ "198.51.100.1" \in Range(wildcard.wildcardTargets)
    /\ \E i \in 1..Len(results) :
        /\ results[i].subdomain = "ftp" /\ results[i].type = "A"
        /\ "ftp" \in asm.filtered
        /\ Len(results[i].records) = 2
        /\ results[i].records[1].value = [str |-> "198.51.100.1"]
        /\ Len(asm.afterWildcard[i]) = 1
        /\ asm.afterWildcard[i][1].value = [str |-> "192.0.2.5"]

\* the CT-discovered subdomains that were added to the work list
C4_Added == {queriesToRun[k].subdomain : k \in (Len(QUERIES_TO_RUN) + 1)..Len(queriesToRun)}

\* C4: the filter-eligible subdomains of a scan are the catalog subdomains
\* other than "@" and other than those starting with an underscore, plus the
\* CT-discovered subdomains added to the work list; so the wildcard filter
\* leaves the records of "@" and of the underscore names of the catalog
\* alone, and a CT-discovered name that is not in the catalog is eligible.
C4_EligibleSet ==
    Scanned =>
        /\ asm.filtered =
            {s \in CatalogNames : s # "@" /\ SubSeq(s, 1, 1) # "_"} \cup C4_Added
        /\ \A i \in 1..Len(results) :
            (results[i].subdomain = "@"
                \/ (results[i].subdomain \in CatalogNames
                        /\ SubSeq(results[i].subdomain, 1, 1) = "_"))
                => asm.afterWildcard[i] = results[i].records
        /\ (~ctData.isNull =>
                \A k \in 1..Len(ctData.subdomains) :
                    ctData.subdomains[k] \notin CatalogNames
                        => ctData.subdomains[k] \in asm.filtered)

\* a wildcard is detected and CT discovery returned staging and _dmarc: the
\* TXT record of _dmarc equals a wildcard target and stays, the A record of
\* staging equals one and goes
C4_Witness ==
    /\ Scanned /\ wildcard.hasWildcard /\ ~ctData.isNull
    /\ {"staging", "_dmarc"} \subseteq Range(ctData.subdomains)
    /\ "staging" \in asm.filtered /\ "_dmarc" \notin asm.filtered
    /\ \E i \in 1..Len(results) :
        /\ results[i].subdomain = "_dmarc"
        /\ Len(results[i].records) = 1
        /\ results[i].records[1].value.str \in Range(wildcard.wildcardTargets)
        /\ asm.afterWildcard[i] = results[i].records
    /\ \E j \in 1..Len(results) :
        /\ results[j].subdomain = "staging"
        /\ Len(results[j].records) = 1
        /\ asm.afterWildcard[j] = <<>>

\* C5: in the records of a response, a subdomain that has a CNAME record has
\* no record of another kind.
C5_CnameExclusive ==
    Scanned =>
        \A i, j \in 1..Len(response.records) :
            (response.records[i].type = "CNAME"
                /\ response.records[j].name = response.records[i].name)
                => response.records[j].type = "CNAME"

\* www answered both a CNAME and an A record; the response keeps the CNAME
C5_Witness ==
    /\ Scanned
    /\ \E i \in 1..Len(results) :
        results[i].subdomain = "www" /\ results[i].type = "A" /\ Len(results[i].records) > 0
    /\ \E k \in 1..Len(response.records) :
        response.records[k].name = "www" /\ response.records[k].type = "CNAME"

\* the characters of the model in the order of their code points
CodePointChars == "*-.0123456789@ABCDEFGHIJKLMNOPQRSTUVWXYZ_abcdefghijklmnopqrstuvwxyz"

CodePointSet == {CharAt(CodePointChars, i) : i \in 1..Len(CodePointChars)}

CodePointOf == [c \in CodePointSet |-> IndexOfChar(CodePointChars, c)]

\* the lexicographic order of strings by code point: negative, 0 or positive
RECURSIVE CodePointCompare(_, _)
CodePointCompare(a, b) ==
    IF Len(a) = 0 /\ Len(b) = 0 THEN 0
    ELSE IF Len(a) = 0 THEN -1
    ELSE IF Len(b) = 0 THEN 1
    ELSE IF CodePointOf[CharAt(a, 1)] < CodePointOf[CharAt(b, 1)] THEN -1
    ELSE IF CodePointOf[CharAt(a, 1)] > CodePointOf[CharAt(b, 1)] THEN 1
    ELSE CodePointCompare(SliceFrom(a, 1), SliceFrom(b, 1))

\* C6, as the specification states it: the records of a response are sorted:
\* the records of "@" come before the others, the others are in the
\* lexicographic order of their subdomain names, and the records of one
\* subdomain are in the lexicographic order of their kind names.
C6_SortedLexicographic ==
    Scanned =>
        \A i, j \in 1..Len(response.records) :
            i < j =>
                LET a == response.records[i]
                    b == response.records[j]
                IN  /\ ~(a.name # "@" /\ b.name = "@")
                    /\ (a.name # "@" /\ a.name # b.name) => CodePointCompare(a.name, b.name) < 0
                    /\ (a.name = b.name) => CodePointCompare(a.type, b.type) <= 0

\* C6, amended: the records of a response are sorted: the records of "@"
\* come before the others, the others are in the order of their subdomain
\* names, and the records of one subdomain are in the order of their kind
\* names, both orders being the collation order of
\* String.prototype.localeCompare (punctuation before digits before letters).
C6_Sorted ==
    Scanned =>
        \A i, j \in 1..Len(response.records) :
            i < j =>
                LET a == response.records[i]
                    b == response.records[j]
                IN  /\ ~(a.name # "@" /\ b.name = "@")
                    /\ (a.name # "@" /\ a.name # b.name) => LocaleCompare(a.name, b.name) < 0
                    /\ (a.name = b.name) => LocaleCompare(a.type, b.type) <= 0

\* records of "@" of several kinds and of several other subdomains, which
\* the sort had to reorder; _dmarc comes before 1st
C6_Witness ==
    /\ Scanned
    /\ asm.allRecords # response.records
    /\ \E i, j \in 1..Len(response.records) :
        i < j /\ response.records[i].name = "_dmarc" /\ response.records[j].name = "1st"
    /\ Len(response.records) >= 5
    /\ response.records[1].name = "@" /\ response.records[2].name = "@"
    /\ response.records[1].type # response.records[2].type
    /\ \E i, j \in 1..Len(response.records) :
        /\ response.records[i].name # "@" /\ response.records[j].name # "@"
        /\ response.records[i].name # response.records[j].name

\* the ways a CT request fails
C9_Failures == {"transport", "http", "empty", "badjson", "notarray"}

\* C9: when the CT request fails in transport, or the status is not a
\* success, or the body is empty or is not the expected array,
\* fetchCtSubdomains returns the zero-valued result without raising, and the
\* scan goes on with the static catalog only.
C9_CtFailureZero ==
    /\ \A p \in Procs :
        (pc[p] = "ct_ret" /\ call[p].fetched /\ call[p].mode \in C9_Failures) =>
            /\ call[p].result.subdomains = <<>>
            /\ call[p].result.totalCerts = 0
            /\ call[p].result.activeCerts = 0
            /\ ~call[p].result.threw
    /\ ctFailed =>
            /\ ctData.subdomains = <<>> /\ ctData.totalCerts = 0 /\ ctData.activeCerts = 0
            /\ pc[Handler] \in {"wait", "done"}
            /\ queriesToRun = QUERIES_TO_RUN
            /\ {results[i].subdomain : i \in 1..Len(results)} = CatalogNames
            /\ (Done => response.success /\ response.ct.discoveredSubdomains = 0)

\* a scan whose CT request failed and that answered with the records of the
\* catalog
C9_Witness ==
    /\ Scanned /\ ctFailed
    /\ response.ct.present /\ response.ct.totalCerts = 0
    /\ response.totalRecords > 0

\* C10: each (subdomain, kind) pair is dispatched at most once; a
\* CT-discovered subdomain of the catalog adds nothing and keeps the catalog's
\* kinds, one that is not in the catalog has exactly A, AAAA and CNAME.
C10_NoDuplicateDispatch ==
    pc[Handler] \in {"wait", "done"} =>
        /\ Cardinality({<<results[i].subdomain, results[i].type>> : i \in 1..Len(results)})
                = Len(results)
        /\ (~ctData.isNull =>
                \A k \in 1..Len(ctData.subdomains) :
                    LET s == ctData.subdomains[k] IN
                    DispatchedKinds(s) =
                        IF s \in CatalogNames THEN CatalogKinds(s) ELSE {"A", "AAAA", "CNAME"})

\* CT discovery returned www, which the catalog has, and staging, which it
\* has not
C10_Witness ==
    /\ pc[Handler] = "wait"
    /\ ~ctData.isNull
    /\ {"www", "staging"} \subseteq Range(ctData.subdomains)
    /\ "www" \in CatalogNames /\ "staging" \notin CatalogNames
    /\ DispatchedKinds("staging") = {"A", "AAAA", "CNAME"}

(***************************************************************************)
(* Properties of fetchCtSubdomains (specification SpecCt).                 *)
(***************************************************************************)
\* C7: fetchCtSubdomains never returns the content of an entry as old as the
\* freshness window or older: it requests the CT service, and when that
\* request fails the result is the zero-valued one; an entry younger than the
\* window is returned at once with cached = true.
C7_StaleNeverServed ==
    \A p \in Procs :
        pc[p] = "ct_ret" =>
            LET c == call[p] IN
            /\ (c.found /\ c.foundAge >= 60 * 60 * 1000) =>
                    /\ c.fetched /\ ~c.result.cached
                    /\ (c.mode # "ok" =>
                            /\ c.result.subdomains = <<>>
                            /\ c.result.totalCerts = 0
                            /\ c.result.activeCerts = 0)
            /\ (c.found /\ c.foundAge < 60 * 60 * 1000) =>
                    /\ ~c.fetched /\ c.result.cached
                    /\ c.result.subdomains = c.foundSubs
            /\ c.result.cached => (c.found /\ c.foundAge < 60 * 60 * 1000)

\* a call read an entry exactly one hour old that lists subdomains, its
\* request to the CT service failed, and it returns no subdomain
C7_Witness ==
    \E p \in Procs :
        /\ pc[p] = "ct_ret"
        /\ call[p].found /\ call[p].foundAge = 60 * 60 * 1000
        /\ call[p].foundSubs # <<>>
        /\ call[p].mode = "transport"
        /\ call[p].result.subdomains = <<>>

C15_ResponseFields ==
    Scanned =>
        /\ response.wildcard.present <=> Len(wildcard.wildcardTargets) > 0
        /\ response.dnssec.present <=> req.dnssec
        /\ response.ct.present <=> req.ct
        /\ \A f \in {response.wildcard, response.dnssec, response.ct} :
                ~f.present => f = Absent
        /\ response.totalRecords = Len(response.records)

\* a scan with CT discovery requested whose CT request failed, without
\* wildcard and without DNSSEC: only the ct field is there
C15_Witness ==
    /\ Scanned
    /\ req.ct /\ ctFailed /\ ctData.totalCerts = 0
    /\ ~req.dnssec
    /\ ~wildcard.hasWildcard
    /\ response.ct.present /\ response.ct.totalCerts = 0
    /\ response.wildcard = Absent /\ response.dnssec = Absent
    /\ response.totalRecords > 0

\* the subdomain s has a CNAME record left after the wildcard filter
C17_SurvivingCname(s) ==
    \E j \in 1..Len(results) :
        /\ results[j].subdomain = s
        /\ \E k \in 1..Len(asm.afterWildcard[j]) : asm.afterWildcard[j][k].type = "CNAME"

\* the record r of the subdomain s is in the response
InResponse(s, r) ==
    \E n \in 1..Len(response.records) :
        /\ response.records[n].name = s
        /\ response.records[n].type = r.type
        /\ response.records[n].value = r.value

\* C17: a non-CNAME record that passed the wildcard filter is pruned if and
\* only if its subdomain has at least one CNAME record that survived the
\* wildcard filter; a subdomain whose CNAME records were all removed by the
\* wildcard filter keeps its other records.
C17_PrunedIffSurvivingCname ==
    Scanned =>
        \A i \in 1..Len(results) :
            \A k \in 1..Len(asm.afterWildcard[i]) :
                asm.afterWildcard[i][k].type # "CNAME" =>
                    (~InResponse(results[i].subdomain, asm.afterWildcard[i][k])
                        <=> C17_SurvivingCname(results[i].subdomain))

\* the wildcard probes or the DNS queries have been issued
C19_Dispatched == "probe" \in netActs \/ "dns" \in netActs

\* C19: when CT discovery is requested, fetchCtSubdomains has returned before
\* the wildcard probe or any DNS query is issued: at dispatch the handler is
\* in no fetchCtSubdomains call and holds its result, and from the first
\* query on the work list never changes.
C19_CtBeforeDispatch ==
    /\ [](C19_Dispatched /\ req.ct =>
            /\ call[Handler] = NoCall
            /\ ~ctData.isNull
            /\ pc[Handler] \in {"wait", "done"}
            /\ queriesToRun = BuildQueries(ctData))
    /\ [][C19_Dispatched =>
            /\ queriesToRun' = queriesToRun
            /\ ctSubdomains' = ctSubdomains
            /\ Len(results') = Len(results)]_vars

\* queries are in flight for a work list that CT discovery made longer
C19_Witness ==
    /\ req.ct
    /\ pc[Handler] = "wait"
    /\ "dns" \in netActs
    /\ pending # {}
    /\ Len(ctSubdomains) > 0
    /\ Len(queriesToRun) = Len(QUERIES_TO_RUN) + Len(ctSubdomains)

(***************************************************************************)
(* Properties of queryDns and detectWildcard (specification SpecFn).       *)
(***************************************************************************)
\* C11: queryDns always returns an outcome and never raises; a transport
\* failure or a non-success HTTP status gives empty records with an error;
\* upstream status 3 gives empty records and no error; any other non-zero
\* upstream status gives empty records with an error; status 0 gives no
\* error.  In every outcome an error implies empty records.
C11_OutcomeClasses ==
    (fn.op = "queryDns" /\ fn.done) =>
        LET r == fn.reply
            o == fn.out
            answered == r.net /\ r.httpOk
        IN  /\ ~o.rejected
            /\ o.subdomain = fn.subdomain /\ o.type = fn.type
            /\ (~answered => (o.records = <<>> /\ o.hasError))
            /\ ((answered /\ r.Status = 3) => (o.records = <<>> /\ ~o.hasError))
            /\ ((answered /\ r.Status \notin {0, 3}) => (o.records = <<>> /\ o.hasError))
            /\ ((answered /\ r.Status = 0) => ~o.hasError)
            /\ (o.hasError => o.records = <<>>)
            /\ (o.hasError <=> o.error # "")

\* queryDns returned for an upstream status other than 0 and 3 that came
\* with an answer section: an error and no records
C11_Witness ==
    /\ fn.op = "queryDns" /\ fn.done
    /\ fn.reply.net /\ fn.reply.httpOk /\ fn.reply.Status = 2 /\ Len(fn.reply.Answer) > 0
    /\ fn.out.hasError /\ fn.out.error = "DNS error: 2"
    /\ fn.out.records = <<>>

\* the probe response d is one that detectWildcard can use: not null, with
\* status 0 and at least one answer
C14_Usable(d) == d.net /\ d.Status = 0 /\ d.hasAnswer /\ Len(d.Answer) > 0

\* the values that the answers of the probe response d give
C14_Values(d) == {StripQuotes(StripTrailingDot(d.Answer[k].data)) : k \in 1..Len(d.Answer)}

\* C14: detectWildcard always returns a WildcardInfo; hasWildcard is true
\* exactly when the targets are not empty, which requires a probe that
\* returned status 0 with a non-empty answer; a probe that fails is ignored
\* and does not affect the others (the targets are exactly the values of the
\* usable probes); when every probe fails, hasWildcard is false and the
\* targets are empty.
C14_WildcardInfo ==
    (fn.op = "detectWildcard" /\ fn.done) =>
        LET usable == {k \in 1..Len(fn.responses) : C14_Usable(fn.responses[k])}
            o == fn.out
        IN  /\ o.hasWildcard \in BOOLEAN
            /\ (o.hasWildcard <=> Len(o.wildcardTargets) > 0)
            /\ (o.hasWildcard => usable # {})
            /\ Range(o.wildcardTargets) = UNION {C14_Values(fn.responses[k]) : k \in usable}
            /\ (usable = {} => (~o.hasWildcard /\ o.wildcardTargets = <<>>
                                    /\ o.wildcardCname = NoCname))

\* the first probe failed, the second answered an upstream error with an
\* answer section, the third answered a wildcard address: one target
C14_Witness ==
    /\ fn.op = "detectWildcard" /\ fn.done
    /\ ~fn.responses[1].net
    /\ fn.responses[2].Status = 2 /\ fn.responses[2].hasAnswer
    /\ fn.responses[3].Status = 0 /\ Len(fn.responses[3].Answer) = 1
    /\ ~fn.responses[4].net
    /\ fn.out.hasWildcard
    /\ fn.out.wildcardTargets = <<WildIp>>

(***************************************************************************)
(* Properties of the assembly, on two scans (specification SpecFn).        *)
(***************************************************************************)
\* C16: the errors of the outcomes never reach the response: two scans that
\* are the same except that one (subdomain, kind) query ends in NXDOMAIN in
\* the first and in a transport, HTTP or upstream error in the second give
\* the same records, totalRecords, wildcard, dnssec and ct fields.
C16_ErrorsNotInResponse ==
    (fn.op = "twin" /\ fn.done) =>
        /\ fn.first.records = fn.second.records
        /\ fn.first.totalRecords = fn.second.totalRecords
        /\ fn.first.wildcard = fn.second.wildcard
        /\ fn.first.dnssec = fn.second.dnssec
        /\ fn.first.ct = fn.second.ct

\* two scans with DNSSEC and CT requested and a wildcard detected, the
\* second with an outcome that carries an error; both responses list records
\* and report DNSSEC as validated
C16_Witness ==
    /\ fn.op = "twin" /\ fn.done
    /\ req.dnssec /\ req.ct
    /\ fn.wildcard.hasWildcard
    /\ fn.queries[fn.i].reply.Status = 3
    /\ queryDns(fn.queries[fn.i].subdomain, fn.queries[fn.i].type, fn.error).hasError
    /\ fn.first.totalRecords > 1
    /\ fn.second.dnssec.present /\ fn.second.dnssec.valid
    /\ fn.second.ct.present /\ fn.second.wildcard.present

\* C18: the final records list does not depend on the order of the outcomes
\* list: for the same outcomes and the same wildcard info every permutation
\* of the list (every order of completion of the queries) gives exactly the
\* same records list, the relative order of the records of the same
\* subdomain and kind included.
C18_OrderIndependent ==
    (fn.op = "permuted" /\ fn.done) => fn.first.records = fn.second.records

\* the outcomes list reversed: the apex has records of two kinds, two of
\* them of the same kind, and the records list is the same
C18_Witness ==
    /\ fn.op = "permuted" /\ fn.done
    /\ \A k \in 1..Len(fn.queries) : fn.order[k] = Len(fn.queries) + 1 - k
    /\ \A k \in 1..Len(fn.queries) : fn.queries[k].reply.Status = 0
    /\ \E m \in 1..(Len(fn.first.records) - 1) :
        /\ fn.first.records[m].name = "@" /\ fn.first.records[m].type = "TXT"
        /\ fn.first.records[m + 1].name = "@" /\ fn.first.records[m + 1].type = "TXT"
        /\ fn.first.records[m].value # fn.first.records[m + 1].value
    /\ \E m \in 1..Len(fn.first.records) :
        fn.first.records[m].name = "@" /\ fn.first.records[m].type = "A"
    /\ fn.second.records = fn.first.records

(***************************************************************************)
(* Properties of the fan-out and the join (specifications SpecRace and     *)
(* SpecRaceFair).                                                          *)
(***************************************************************************)
\* the records of the outcome i that the two filters keep
C12_Kept(i) == CnameFilter(asm.afterWildcard[i], results[i].subdomain, asm.withCname)

\* C12: a query that fails or is slow never cancels or discards a sibling:
\* whatever subset of the dispatched queries ends in an error outcome, no
\* promise rejects, the scan ends with its success response, every other
\* query has the outcome its own reply gives, and the records of it that the
\* filters keep are in the response.
C12_SiblingsUnaffected ==
    Done =>
        /\ response.success
        /\ Len(asm.afterWildcard) = Len(results)
        /\ \A i \in 1..Len(results) :
            /\ ~results[i].rejected
            /\ (~results[i].hasError =>
                    /\ results[i] =
                        queryDns(results[i].subdomain, results[i].type,
                                 RaceZone(results[i].subdomain, results[i].type, cleanDomain))
                    /\ \A k \in 1..Len(C12_Kept(i)) :
                            InResponse(results[i].subdomain, C12_Kept(i)[k]))

\* the first two queries failed, one in transport and one upstream; the
\* response still lists the records of the queries dispatched after them
C12_Witness ==
    /\ Scanned
    /\ results[1].hasError /\ results[1].error = "fetch failed"
    /\ results[2].hasError /\ results[2].error = "DNS error: 2"
    /\ \E n \in 1..Len(response.records) :
        response.records[n].name = "@" /\ response.records[n].type = "TXT"
    /\ \E n \in 1..Len(response.records) :
        response.records[n].name = "www" /\ response.records[n].type = "CNAME"

\* a call of the scan is outstanding: the handler is inside
\* fetchCtSubdomains, or a promise of the fan-out has not settled
C13_Outstanding ==
    \/ pc[Handler] \in {"ct_open", "ct_get", "ct_resp", "ct_open2", "ct_set", "ct_ret"}
    \/ pending # {}

\* C13: if every outbound call of a scan eventually completes, with success
\* or with failure, the scan eventually returns its response; and as long as
\* a call is outstanding the scan has returned no response (there is no
\* timeout).
C13_ReturnsWhenAllComplete ==
    /\ <>Done
    /\ [](C13_Outstanding => (response = NoResponse /\ ~Done))

\* the scan returned after its CT request and one of its queries had failed
C13_Witness ==
    /\ Scanned
    /\ req.ct /\ ctFailed
    /\ pending = {}
    /\ \E i \in 1..Len(results) : results[i].hasError

\* C20: the wildcard detection and every (subdomain, kind) query are launched
\* before any of them is awaited, and no filtering, pruning, sorting or
\* response construction runs until the wildcard detection and every
\* dispatched query have completed.
C20_LaunchAllThenJoin ==
    /\ (pc[Handler] = "wait" =>
            /\ Len(results) = Len(FlattenQueries(queriesToRun))
            /\ pending \subseteq 0..Len(results)
            /\ {"probe", "dns"} \subseteq netActs)
    /\ ((asm # NoAsm \/ response.success) =>
            /\ pending = {}
            /\ Len(results) = Len(FlattenQueries(queriesToRun)))

\* every query launched after the first two has settled, detectWildcard and
\* the first two have not: nothing has been assembled
C20_Witness ==
    /\ pc[Handler] = "wait"
    /\ Len(results) > RaceWidth
    /\ pending = Racing
    /\ asm = NoAsm
    /\ response = NoResponse

(***************************************************************************)
(* C21  Every record of an outcome of queryDns has the requested kind: the *)
(* records are, in order, the answers of the reply whose wire type code is *)
(* the code of the requested kind; answers with another code (the CNAME    *)
(* hops before an address) are left out and none with the code is lost.    *)
(***************************************************************************)
C21_Requested == SelectSeq(fn.reply.Answer, LAMBDA a : a.type = DNS_TYPE_MAP(fn.type))

C21_Parsed == fn.reply.net /\ fn.reply.httpOk /\ fn.reply.Status = 0 /\ fn.reply.hasAnswer

C21_OnlyRequestedKind ==
    (fn.op = "queryDns" /\ fn.done) =>
        /\ \A i \in 1..Len(fn.out.records) : fn.out.records[i].type = fn.type
        /\ C21_Parsed =>
              /\ Len(fn.out.records) = Len(C21_Requested)
              /\ \A i \in 1..Len(C21_Requested) :
                    /\ fn.out.records[i].name = StripTrailingDot(C21_Requested[i].name)
                    /\ fn.out.records[i].ttl = C21_Requested[i].TTL

\* an address query answered by a CNAME hop and an address: one record is kept
C21_Witness ==
    /\ fn.op = "queryDns" /\ fn.done /\ fn.type = "A" /\ C21_Parsed
    /\ Len(fn.reply.Answer) = 2 /\ fn.reply.Answer[1].type = 5
    /\ Len(fn.out.records) = 1 /\ fn.out.records[1].value = StrValue(OtherIp)

(***************************************************************************)
(* C22  wildcardCname is the value of the first CNAME-typed answer met in  *)
(* the probe responses (in the order of the probes, then of the answers),  *)
(* and null when no counted probe answer is CNAME-typed.                   *)
(***************************************************************************)
\* the positions <<probe, answer>> of the CNAME-typed answers that are looked at
C22_CnameAt ==
    {at \in (1..Len(typesToCheck)) \X (1..3) :
        /\ ProbeCounts(fn.responses[at[1]])
        /\ at[2] <= Len(fn.responses[at[1]].Answer)
        /\ fn.responses[at[1]].Answer[at[2]].type = 5}

C22_Before(a, b) == a[1] < b[1] \/ (a[1] = b[1] /\ a[2] <= b[2])

C22_ValueAt(at) == StripQuotes(StripTrailingDot(fn.responses[at[1]].Answer[at[2]].data))

C22_FirstCnameWins ==
    (fn.op = "detectWildcard" /\ fn.done) =>
        IF C22_CnameAt = {} THEN fn.out.wildcardCname.null
        ELSE /\ ~fn.out.wildcardCname.null
             /\ \E first \in C22_CnameAt :
                   /\ \A at \in C22_CnameAt : C22_Before(first, at)
                   /\ fn.out.wildcardCname.v = C22_ValueAt(first)

\* what the loop does: the last CNAME-typed answer overwrites the earlier ones
C22_LastCnameWins ==
    (fn.op = "detectWildcard" /\ fn.done) =>
        IF C22_CnameAt = {} THEN fn.out.wildcardCname.null
        ELSE /\ ~fn.out.wildcardCname.null
             /\ \E last \in C22_CnameAt :
                   /\ \A at \in C22_CnameAt : C22_Before(at, last)
                   /\ fn.out.wildcardCname.v = C22_ValueAt(last)

\* a probe answered by a chain of two CNAME hops: the target of the second is kept
C22_Witness ==
    /\ fn.op = "detectWildcard" /\ fn.done
    /\ ProbeCounts(fn.responses[1]) /\ Len(fn.responses[1].Answer) = 3
    /\ \A i \in 2..Len(typesToCheck) : ~ProbeCounts(fn.responses[i])
    /\ fn.out.wildcardCname = [null |-> FALSE, v |-> "host.example.net"]

(***************************************************************************)
(* C26  parseRecord returns a record whose name and host-like value fields *)
(* (the value of CNAME and NS, the exchange of MX, mname and rname of SOA, *)
(* the target of SRV) do not end with the dot of the root zone; the        *)
(* payloads of A and AAAA are passed through unchanged; a TXT payload      *)
(* loses exactly one leading and one trailing double quote.                *)
(***************************************************************************)
C26_HostFields ==
    CASE fn.type \in {"CNAME", "NS"} -> {fn.out.value.str}
      [] fn.type = "MX" -> {fn.out.value.exchange}
      [] fn.type = "SOA" -> {fn.out.value.mname, fn.out.value.rname}
      [] fn.type = "SRV" -> {fn.out.value.target}
      [] OTHER -> {}

\* the payload without its first character if that is a double quote and
\* without its last character if that is a double quote
C26_Unquoted(d) ==
    LET from == IF Len(d) > 0 /\ CharAt(d, 1) = "\"" THEN 2 ELSE 1
        to == IF Len(d) >= from /\ CharAt(d, Len(d)) = "\"" THEN Len(d) - 1 ELSE Len(d)
    IN  SubSeq(d, from, to)

C26_NoRootDot ==
    (fn.op = "parseRecord" /\ fn.done) =>
        /\ ~EndsWith(fn.out.name, ".")
        /\ fn.answer.name \in {fn.out.name, fn.out.name \o "."}
        /\ \A h \in C26_HostFields : ~EndsWith(h, ".")
        /\ fn.type \in {"A", "AAAA"} => fn.out.value = StrValue(fn.answer.data)
        /\ fn.type = "TXT" => fn.out.value = StrValue(C26_Unquoted(fn.answer.data))

\* an MX payload with an absolute exchange, and a text of two quoted strings
C26_Witness ==
    /\ fn.op = "parseRecord" /\ fn.done /\ fn.type = "MX"
    /\ fn.answer.name = "example.com." /\ fn.out.name = "example.com"
    /\ fn.answer.data = "10 mail.example.com."
    /\ fn.out.value = [preference |-> Num(10), exchange |-> "mail.example.com"]

C26_WitnessTxt ==
    /\ fn.op = "parseRecord" /\ fn.done /\ fn.type = "TXT"
    /\ fn.answer.data = "\"\"quoted\"\"" /\ fn.out.value = StrValue("\"quoted\"")

(***************************************************************************)
(* C28  The wildcard detector and the record normalizer agree on values:   *)
(* for every kind of the wildcard-affected set and every raw payload d,    *)
(* the target that detectWildcard records for a probe answer with data d   *)
(* is the value that parseRecord gives an answer with data d, so that on   *)
(* an eligible subdomain a record whose raw payload is that of a wildcard  *)
(* probe answer is always removed.                                         *)
(***************************************************************************)
C28_Agree ==
    /\ Len(fn.result.records) = 1
    /\ fn.wildcard.wildcardTargets = <<fn.result.records[1].value.str>>
    /\ fn.kept = <<>>

C28_DetectorAgreesWithParser ==
    (fn.op = "wildcardMatch" /\ fn.done) => C28_Agree

\* the payloads on which the two normalisations cannot differ: no final dot
\* unless the kind is CNAME, no double quote at either end unless it is TXT
C28_Plain ==
    /\ fn.type # "CNAME" => ~EndsWith(fn.data, ".")
    /\ fn.type # "TXT" => ~StartsWith(fn.data, "\"") /\ ~EndsWith(fn.data, "\"")

C28_AgreeOnPlainPayloads ==
    (fn.op = "wildcardMatch" /\ fn.done /\ C28_Plain) => C28_Agree

\* a quoted wildcard text is recognised on www and removed
C28_Witness ==
    /\ fn.op = "wildcardMatch" /\ fn.done /\ fn.type = "TXT" /\ fn.data = WildTxtData
    /\ fn.wildcard.wildcardTargets = <<"v=spf1 -all">> /\ fn.kept = <<>>

\* an unquoted wildcard text that ends with a dot is kept
C28_Survivor ==
    /\ fn.op = "wildcardMatch" /\ fn.done /\ fn.type = "TXT"
    /\ fn.wildcard.wildcardTargets = <<"Contact postmaster@example.com">>
    /\ Len(fn.kept) = 1
    /\ fn.kept[1].value = StrValue("Contact postmaster@example.com.")

(***************************************************************************)
(* C27  Every record that the resolver returns for an apex (`@`) query     *)
(* with the requested kind is in the final records list, in every scan:    *)
(* the apex is never eligible for the wildcard filter, no CNAME query is   *)
(* dispatched for the apex and discovery never adds an `@` entry, so       *)
(* neither the wildcard filter nor the CNAME pruning removes apex records. *)
(***************************************************************************)
\* the positions <<outcome, record>> of the records of the apex outcomes
C27_ApexRecords ==
    {at \in (1..Len(results)) \X (1..2) :
        results[at[1]].subdomain = "@" /\ at[2] <= Len(results[at[1]].records)}

C27_ApexInResponse == {n \in 1..Len(response.records) : response.records[n].name = "@"}

C27_ApexRecordsKept ==
    Scanned =>
        /\ \A at \in C27_ApexRecords : InResponse("@", results[at[1]].records[at[2]])
        /\ Cardinality(C27_ApexInResponse) = Cardinality(C27_ApexRecords)
        /\ "@" \notin WildcardFilteredSet(ctSubdomains)
        /\ "@" \notin SubdomainsWithCname(results)
        /\ "CNAME" \notin DispatchedKinds("@")

\* a wildcard answers with the address of the apex, and discovery added names:
\* the apex address is in the response all the same
C27_Witness ==
    /\ Scanned /\ wildcard.hasWildcard /\ WildIp \in Range(wildcard.wildcardTargets)
    /\ Len(ctSubdomains) > 0
    /\ \E n \in C27_ApexInResponse :
          response.records[n].type = "A" /\ response.records[n].value = StrValue(WildIp)
    /\ Cardinality(C27_ApexInResponse) = 3

(***************************************************************************)
(* C23  Two concurrent scans of the same domain, under every interleaving  *)
(* of their cache-get, CT-fetch and cache-set steps: the cache entry is    *)
(* always absent or the complete entry written by one of the two calls,    *)
(* never a mixture, and each call returns a complete freshly fetched       *)
(* result or a complete cached one; the race costs a redundant CT fetch    *)
(* and nothing else.                                                       *)
(***************************************************************************)
\* the results of a complete parse of what the CT service lists, at the
\* times of the clock
C23_Fresh ==
    {ParseCtEntries(body, d, StartNow + k * TickStep) :
        body \in {BodyA, BodyB}, d \in CtDomains, k \in 0..MaxTicks}

C23_Content(x) ==
    [subdomains |-> x.subdomains, totalCerts |-> x.totalCerts, activeCerts |-> x.activeCerts]

C23_FreshContents == {C23_Content(r) : r \in C23_Fresh}

\* the entry of the domain d is absent or the whole entry of one call
C23_EntryComplete(d) ==
    cache[d].present =>
        /\ cache[d].by \in 1..(nextId - 1)
        /\ C23_Content(cache[d]) \in C23_FreshContents
        /\ \A p \in Procs :
              call[p].id = cache[d].by =>
                  call[p].wrote /\ C23_Content(cache[d]) = C23_Content(call[p].result)
        /\ \A n \in 1..Len(log) :
              log[n].id = cache[d].by => log[n].subdomains = cache[d].subdomains

\* the call of p is about to return a whole result
C23_ResultComplete(p) ==
    pc[p] = "ct_ret" =>
        CASE call[p].src = "live" ->
                /\ call[p].result \in C23_Fresh
                /\ call[p].fetched
           [] call[p].src = "cache" ->
                /\ call[p].result.cached
                /\ C23_Content(call[p].result) \in C23_FreshContents
                /\ call[p].result.subdomains = call[p].foundSubs
                /\ call[p].foundBy \in (1..(nextId - 1)) \ {call[p].id}
                /\ ~call[p].wrote
           [] OTHER ->
                /\ call[p].mode = "transport"
                /\ call[p].result = ZeroCt /\ ~call[p].wrote

C23_RaceIsBenign ==
    /\ \A d \in Domains : C23_EntryComplete(d)
    /\ \A p \in Procs : C23_ResultComplete(p)

\* both calls missed the cache and fetched; they saw different lists; both
\* wrote, the first caller last: the entry is the whole entry of the first
C23_Witness ==
    /\ pc[1] = "ct_ret" /\ pc[2] = "ct_ret"
    /\ call[1].src = "live" /\ call[2].src = "live"
    /\ call[1].wrote /\ call[2].wrote
    /\ call[1].result # call[2].result
    /\ cache["example.com"].by = call[1].id
    /\ C23_Content(cache["example.com"]) = C23_Content(call[1].result)

(***************************************************************************)
(* C24  Cache failures never change what fetchCtSubdomains computes: when  *)
(* the store cannot be opened or the cache read fails, the live CT fetch   *)
(* is still made and its result returned, not marked cached; when the      *)
(* cache write fails (or the store cannot be opened for it), the freshly   *)
(* fetched result is still returned, unchanged.                            *)
(***************************************************************************)
\* the call of p returns what the live fetch gave
C24_LiveResult(p) ==
    /\ call[p].fetched
    /\ ~call[p].result.cached
    /\ IF call[p].mode = "ok" THEN call[p].src = "live" /\ call[p].result \in C23_Fresh
       ELSE call[p].src = "zero" /\ call[p].result = ZeroCt

C24_AtReturn ==
    \A p \in Procs :
        pc[p] = "ct_ret" =>
            /\ ~call[p].readOk => C24_LiveResult(p)
            /\ (call[p].mode = "ok" /\ ~call[p].wrote) => C24_LiveResult(p)

\* between the parse and the return the result is not touched
C24_WriteKeepsResult ==
    \A p \in Procs :
        pc[p] \in {"ct_open2", "ct_set"} =>
            /\ call'[p].result = call[p].result
            /\ pc'[p] \in {"ct_open2", "ct_set", "ct_ret"}

C24_CacheFailuresHarmless == []C24_AtReturn /\ [][C24_WriteKeepsResult]_vars

\* the store was opened, the read threw, the fetch gave subdomains and the
\* write threw: the fetched result is returned and nothing is cached
C24_Witness ==
    \E p \in Procs :
        /\ pc[p] = "ct_ret" /\ call[p].store /\ ~call[p].readOk
        /\ call[p].mode = "ok" /\ ~call[p].wrote
        /\ call[p].result = ParseCtEntries(BodyA, "example.com", StartNow)
        /\ Len(call[p].result.subdomains) > 0
        /\ ~cache["example.com"].present

\* the store could not be opened, before the read and before the write
C24_WitnessNoStore ==
    \E p \in Procs :
        /\ pc[p] = "ct_ret" /\ ~kv /\ ~call[p].store /\ ~call[p].readOk
        /\ call[p].src = "live" /\ Len(call[p].result.subdomains) > 0

(***************************************************************************)
(* C25  Every subdomain s of a freshly fetched discovery result is not     *)
(* empty, holds no `@` and no whitespace character, and s.domain is the    *)
(* trimmed, lowercased form of a name listed on a certificate whose        *)
(* not_after is strictly after now; that name does not start with `*` and  *)
(* is not the bare domain.  No name that is only on expired certificates   *)
(* is discovered.                                                          *)
(***************************************************************************)
\* the call of p parses the response of the CT service in this step
C25_Parses(p) == pc[p] = "ct_resp" /\ pc'[p] = "ct_open2"

\* s.d is the form of a name on a certificate that is listed and not expired
C25_Listed(s, d) ==
    \E i \in 1..Len(ctBody) :
        /\ ctBody[i].not_after > now
        /\ \E raw \in Range(Split(ctBody[i].name_value, "\n")) :
              LET name == ToLowerCase(Trim(raw)) IN
              name = s \o "." \o d /\ ~StartsWith(name, "*") /\ name # d

C25_NoWhitespace(s) == \A i \in 1..Len(s) : ~IsSpaceChar(CharAt(s, i))

C25_Valid(s, d) == s # "" /\ ~Includes(s, "@") /\ C25_Listed(s, d)

C25_DiscoveredNamesValid ==
    [][\A p \in Procs :
          C25_Parses(p) =>
              \A s \in Range(call'[p].result.subdomains) :
                  C25_Valid(s, call[p].domain) /\ C25_NoWhitespace(s)]_vars

\* the same with the test the code makes: no space character (U+0020)
C25_DiscoveredNamesValidNoSpace ==
    [][\A p \in Procs :
          C25_Parses(p) =>
              \A s \in Range(call'[p].result.subdomains) :
                  C25_Valid(s, call[p].domain) /\ ~Includes(s, " ")]_vars

\* a fresh result with the trimmed, lowercased name and the name with a tab
C25_Witness ==
    \E p \in Procs :
        /\ pc[p] = "ct_open2" /\ call[p].src = "live"
        /\ {"dev", "t\tab", "staging"} \subseteq Range(call[p].result.subdomains)
        /\ "old" \notin Range(call[p].result.subdomains)
        /\ "x y" \notin Range(call[p].result.subdomains)

(***************************************************************************)
(* C29  A failed CT fetch leaves the cache unchanged: a call that returns  *)
(* the zero-valued failure result (non-success HTTP status, empty body,    *)
(* parse or transport error) makes no cache write, so the entry of the     *)
(* domain, absent, fresh or stale, is after the call what it was before;   *)
(* the cache is written only after a response was parsed.                  *)
(***************************************************************************)
\* the CT request of the call c failed
C29_Failed(c) == c.fetched /\ c.mode \in CtModes \ {"ok"}

C29_NoWriteByFailed ==
    \A p \in Procs :
        /\ pc[p] \in {"ct_open2", "ct_set"} => call[p].mode = "ok" /\ call[p].src = "live"
        /\ (pc[p] = "ct_ret" /\ C29_Failed(call[p])) =>
              call[p].result = ZeroCt /\ ~call[p].wrote

\* a step that changes the cache is the write of a call that parsed a response
C29_WriteAfterParse ==
    cache' # cache =>
        \E p \in Procs :
            /\ pc[p] = "ct_set" /\ call[p].mode = "ok"
            /\ cache' = [cache EXCEPT ![call[p].domain] =
                            CacheEntry(call[p].result, now, call[p].id)]

\* no step of a call whose request failed changes the cache
C29_FailedKeepsCache ==
    \A p \in Procs : (pc'[p] = "ct_ret" /\ C29_Failed(call'[p])) => cache' = cache

C29_FailedFetchLeavesCache ==
    []C29_NoWriteByFailed /\ [][C29_WriteAfterParse /\ C29_FailedKeepsCache]_vars

\* the body could not be parsed while a stale entry is in the store: the zero
\* result is returned and the stale entry is still there
C29_Witness ==
    /\ pc[Handler] = "ct_ret" /\ call[Handler].mode = "badjson"
    /\ call[Handler].result = ZeroCt
    /\ cache[call[Handler].domain] = OldEntry(CT_CACHE_TTL_MS)

(***************************************************************************)
(* C30  In the UI component, for every sequence of user actions (button    *)
(* click, Enter key, hash load, Clear): at most one lookup request is in   *)
(* flight at a time, isLoading is true whenever a lookup request is in     *)
(* flight, and the displayed result and error are never both set and       *)
(* always belong to the most recently started lookup.                      *)
(***************************************************************************)
C30_OneInFlight == Cardinality(ui.flight) <= 1

C30_LoadingWhileInFlight == ui.flight # {} => ui.isLoading

C30_NotBoth == ui.result.null \/ ui.error.null

C30_OfLatestLookup ==
    /\ ~ui.result.null => ui.result.by = ui.lookups
    /\ ~ui.error.null => ui.error.by = ui.lookups

C30_SingleLookup ==
    /\ C30_OneInFlight
    /\ C30_LoadingWhileInFlight
    /\ C30_NotBoth
    /\ C30_OfLatestLookup

\* Enter was pressed twice: two requests are under way
C30_TwoInFlight == Cardinality(ui.flight) = 2

\* a request is under way while the button is enabled again
C30_InFlightNotLoading == ui.flight # {} /\ ~ui.isLoading

\* a result and an error are shown together
C30_BothShown == ~ui.result.null /\ ~ui.error.null

\* the result shown is that of an earlier lookup than the last one started
C30_StaleResult == ~ui.result.null /\ ui.result.by < ui.lookups /\ ui.flight = {}

====
